---------------------------- MODULE Spec2Model ----------------------------
(***************************************************************************)
(* The in-memory options exchange of src/unnamed/part_002: three module    *)
(* level maps (INR_BALANCES, ORDERBOOK, STOCK_BALANCES) and the request    *)
(* handlers that change them.                                              *)
(*                                                                         *)
(* Numbers.  The source computes with decimal.js, which is exact.  Money   *)
(* and prices are modelled as integers in cents (1/100): the price 9.5 is  *)
(* 950, the seed balance 10000 is 1000000.  Quantities are whole tokens.   *)
(* A price key of the book (Decimal.toString()) is the price in cents: two *)
(* keys are equal exactly when the decimal values are.                     *)
(*                                                                         *)
(* Objects.  A JavaScript object with string keys is a function whose      *)
(* DOMAIN is its key set.  The per-level `orders` object is iterated with  *)
(* Object.entries, whose order is insertion order, so it is a sequence of  *)
(* records [id, q] without repeated ids.                                   *)
(*                                                                         *)
(* Exceptions.  A handler is a function from the store and the request to  *)
(* the store it leaves behind and its response.  A throw (an explicit      *)
(* Error or a TypeError on an undefined value) stops the handler at that   *)
(* point: the writes made before it stay, the catch answers 400.           *)
(***************************************************************************)
EXTENDS Integers, Sequences, FiniteSets, TLC

VARIABLES
  INR_BALANCES,    \* userId -> [balance, locked]                (part_002:3)
  ORDERBOOK,       \* symbol -> [yes, no], each price -> [total, orders] (:4)
  STOCK_BALANCES,  \* userId -> symbol -> [yes, no], each [quantity, locked] (:5)
  last,            \* the last request served and its response
  origin,          \* history: "empty" or "seed", how the current data began
  sellPlaced,      \* history: keys <<user, symbol, side, price>> a sell rested at
  buyPlaced,       \* history: keys <<user, symbol, side, price>> a buy rested at
  requests,        \* number of requests served since the data began
  redis,           \* the Redis hashes of the controller: users, orderbook,
                   \* stockBalances (index.controller.js)
  sweep,           \* history: the head pairs the last matchOrders looked at,
                   \* each <<yesPrice, noPrice>> with its decision and the
                   \* number of prices then left in the two working lists
  tasks,           \* the controller's requests in flight: for each its route,
                   \* the await it stands at, its local values and its answer
  updates          \* the events the last controller request published on the
                   \* "updates" channel

vars == <<INR_BALANCES, ORDERBOOK, STOCK_BALANCES, last, origin, sellPlaced,
          buyPlaced, requests, redis, sweep, tasks, updates>>

---------------------------------------------------------------------------
(* Bounds of the model and the inputs requests are drawn from.             *)

MaxRequests     == 4   \* requests served on data that began empty
MaxSeedRequests == 2   \* requests served on data that began as the seed
MaxQuantity     == 2   \* largest quantity of a request

BTC == "BTC_USDT_10_Oct_2024_9_30"

ReqUsers    == {"user1", "user2"}
ReqSymbols  == {BTC}
ReqTypes    == {"yes", "no"}
BadTypes    == {"maybe"}
ReqPrices   == {800, 1000, 1050}
ReqQuantity == 1..MaxQuantity
ReqAmounts  == {5000}

---------------------------------------------------------------------------
(* Small helpers on numbers, sets and the `orders` sequences.              *)

Min2(a, b) == IF a <= b THEN a ELSE b

Min3(a, b, c) == Min2(a, Min2(b, c))

RECURSIVE SortAsc(_)
SortAsc(S) ==
  IF S = {} THEN <<>>
  ELSE LET m == CHOOSE x \in S : \A y \in S : x <= y
       IN  <<m>> \o SortAsc(S \ {m})

RECURSIVE SortDesc(_)
SortDesc(S) ==
  IF S = {} THEN <<>>
  ELSE LET m == CHOOSE x \in S : \A y \in S : x >= y
       IN  <<m>> \o SortDesc(S \ {m})

HasKey(orders, id) == \E i \in 1..Len(orders) : orders[i].id = id

GetQ(orders, id) == orders[CHOOSE i \in 1..Len(orders) : orders[i].id = id].q

SetQ(orders, id, q) ==
  IF HasKey(orders, id)
  THEN [i \in 1..Len(orders) |->
          IF orders[i].id = id THEN [id |-> id, q |-> q] ELSE orders[i]]
  ELSE Append(orders, [id |-> id, q |-> q])

IsNot(id, e) == e.id # id

DelKey(orders, id) == SelectSeq(orders, LAMBDA e : IsNot(id, e))

RECURSIVE SumQ(_)
SumQ(orders) ==
  IF orders = <<>> THEN 0 ELSE Head(orders).q + SumQ(Tail(orders))

Drop(f, k) == [x \in (DOMAIN f) \ {k} |-> f[x]]

Put(f, k, v) == [x \in (DOMAIN f) \cup {k} |-> IF x = k THEN v ELSE f[x]]

Empty == [x \in {} |-> 0]

---------------------------------------------------------------------------
(* The store threaded through a handler: the three maps, the error thrown  *)
(* (NoError while none), the message of a successful response, and as       *)
(* history the trades settled so far and whether a sell order (placed) or   *)
(* the rest of a buy order (pending) was added to the book.                 *)

NoError == "none"

Store(inr, book, stock) ==
  [inr |-> inr, book |-> book, stock |-> stock, err |-> NoError, trades |-> <<>>,
   msg |-> "", placed |-> FALSE, pending |-> FALSE, sweep |-> <<>>]

Throw(db, msg) == IF db.err = NoError THEN [db EXCEPT !.err = msg] ELSE db

TypeError == "TypeError"

ZeroPosition ==
  [yes |-> [quantity |-> 0, locked |-> 0], no |-> [quantity |-> 0, locked |-> 0]]

isValidPrice(price) == price >= 100 /\ price <= 1000

initialiseUserBalances(db, userId) ==
  [db EXCEPT
     !.inr   = IF userId \in DOMAIN @ THEN @
               ELSE Put(@, userId, [balance |-> 0, locked |-> 0]),
     !.stock = IF userId \in DOMAIN @ THEN @ ELSE Put(@, userId, Empty)]

\* a variant that does not look at the price range
validateInputAnyPrice(userId, stockSymbol, quantity, price, stockType) ==
  ~ (quantity = 0 \/ price = 0 \/ quantity <= 0)

\* quantity 0 and price 0 are falsy; the other fields are non-empty strings
validateInput(userId, stockSymbol, quantity, price, stockType) ==
  ~ (quantity = 0 \/ price = 0 \/ quantity <= 0 \/ ~ isValidPrice(price))

checkStockSymbolExists(db, stockSymbol) == stockSymbol \in DOMAIN db.book

\* a variant without the comparison
checkSufficientBalanceAlways(db, userId, amount) == TRUE

checkSufficientBalance(db, userId, amount) == ~ (db.inr[userId].balance < amount)


checkSufficientStockBalance(db, userId, stockSymbol, stockType, quantity) ==
  ~ (stockSymbol \notin DOMAIN db.stock[userId]
     \/ db.stock[userId][stockSymbol][stockType].quantity < quantity)

\* a variant that adds the quantity to the user's entry but not to `total`
updateOrderbookEntryOnly(db, stockSymbol, side, price, quantity, userId) ==
  LET d1 == IF stockSymbol \in DOMAIN db.book THEN db
            ELSE [db EXCEPT !.book = Put(@, stockSymbol, [yes |-> Empty, no |-> Empty])]
  IN  IF side \notin {"yes", "no"} THEN Throw(d1, TypeError)
      ELSE LET levels == d1.book[stockSymbol][side]
               level  == IF price \in DOMAIN levels THEN levels[price]
                         ELSE [total |-> 0, orders |-> <<>>]
               old    == IF HasKey(level.orders, userId) THEN GetQ(level.orders, userId) ELSE 0
               new    == [total  |-> level.total,
                          orders |-> SetQ(level.orders, userId, old + quantity)]
           IN  [d1 EXCEPT !.book[stockSymbol][side] = Put(levels, price, new)]

\* ORDERBOOK[stockSymbol][side] is undefined for a side other than yes and no:
\* reading a price of it throws after the symbol's book was created
updateOrderbook(db, stockSymbol, side, price, quantity, userId) ==
  LET d1 == IF stockSymbol \in DOMAIN db.book THEN db
            ELSE [db EXCEPT !.book = Put(@, stockSymbol, [yes |-> Empty, no |-> Empty])]
  IN  IF side \notin {"yes", "no"} THEN Throw(d1, TypeError)
      ELSE LET levels == d1.book[stockSymbol][side]
               level  == IF price \in DOMAIN levels THEN levels[price]
                         ELSE [total |-> 0, orders |-> <<>>]
               old    == IF HasKey(level.orders, userId) THEN GetQ(level.orders, userId) ELSE 0
               new    == [total  |-> level.total + quantity,
                          orders |-> SetQ(level.orders, userId, old + quantity)]
           IN  [d1 EXCEPT !.book[stockSymbol][side] = Put(levels, price, new)]

ensureStockBalanceExists(db, userId, stockSymbol) ==
  IF stockSymbol \in DOMAIN db.stock[userId] THEN db
  ELSE [db EXCEPT !.stock[userId] = Put(@, stockSymbol, ZeroPosition)]

\* The buyer pays from locked cash, the seller is paid in free cash; the
\* tokens credited and the inventory released are always those of `yes`.
updateBalancesAfterTrade(db, buyerId, sellerId, stockSymbol, price, quantity) ==
  IF buyerId \notin DOMAIN db.inr THEN Throw(db, TypeError)
  ELSE LET d1 == [db EXCEPT !.inr[buyerId].locked = @ - quantity * price] IN
  IF sellerId \notin DOMAIN d1.inr THEN Throw(d1, TypeError)
  ELSE LET d2 == [d1 EXCEPT !.inr[sellerId].balance = @ + quantity * price] IN
  IF buyerId \notin DOMAIN d2.stock THEN Throw(d2, TypeError)
  ELSE LET d3 == ensureStockBalanceExists(d2, buyerId, stockSymbol) IN
  IF sellerId \notin DOMAIN d3.stock THEN Throw(d3, TypeError)
  ELSE LET d4 == ensureStockBalanceExists(d3, sellerId, stockSymbol)
           d5 == [d4 EXCEPT !.stock[buyerId][stockSymbol].yes.quantity = @ + quantity]
       IN  [d5 EXCEPT !.stock[sellerId][stockSymbol].yes.locked = @ - quantity]

\* history: one settled pair, as handed to updateBalancesAfterTrade; the
\* caller of executeTrade fills in the levels the two sides came from, and
\* executeTrade what the two entries hold when the pair is settled
Trade(buyerId, sellerId, price, quantity) ==
  [buyer |-> buyerId, seller |-> sellerId, price |-> price, quantity |-> quantity,
   buyLevel |-> 0, sellLevel |-> 0, pass |-> "new", buyerRests |-> 0, sellerRests |-> 0]

\* what the orders object holds for id, 0 when the entry has been deleted
Rests(orders, id) == IF HasKey(orders, id) THEN GetQ(orders, id) ELSE 0

\* The inner for-loop of executeTrade over a snapshot of the sellers.  x is
\* [db, bo, so, quantity, done]: the store, the two orders objects (changed in
\* place), the quantity left and whether `return` was reached.
RECURSIVE executeInner(_, _, _, _, _, _, _)
executeInner(x, stockSymbol, price, buyerId, buyQuantity, snap, j) ==
  IF x.done \/ x.db.err # NoError \/ j > Len(snap) THEN x
  ELSE
    LET sellerId      == snap[j].id
        sellQuantity  == snap[j].q
        tradeQuantity == Min3(buyQuantity, sellQuantity, x.quantity)
        logged == [x.db EXCEPT !.trades =
                     Append(@, [Trade(buyerId, sellerId, price, tradeQuantity) EXCEPT
                                  !.buyerRests  = Rests(x.bo, buyerId),
                                  !.sellerRests = Rests(x.so, sellerId)])]
        d1 == updateBalancesAfterTrade(logged, buyerId, sellerId, stockSymbol,
                                       price, tradeQuantity)
    IN  IF d1.err # NoError THEN [x EXCEPT !.db = d1]
        \* buyerOrders[buyerId] was deleted: undefined.minus throws
        ELSE IF ~ HasKey(x.bo, buyerId) THEN [x EXCEPT !.db = Throw(d1, TypeError)]
        ELSE
          LET bq == GetQ(x.bo, buyerId) - tradeQuantity
              sq == GetQ(x.so, sellerId) - tradeQuantity
              q2 == x.quantity - tradeQuantity
              x2 == [db |-> d1,
                     bo |-> IF bq = 0 THEN DelKey(x.bo, buyerId)
                            ELSE SetQ(x.bo, buyerId, bq),
                     so |-> IF sq = 0 THEN DelKey(x.so, sellerId)
                            ELSE SetQ(x.so, sellerId, sq),
                     quantity |-> q2,
                     done |-> (q2 = 0)]
          IN  executeInner(x2, stockSymbol, price, buyerId, buyQuantity, snap, j + 1)

\* The outer for-loop over a snapshot of the buyers; Object.entries of the
\* sellers is taken anew for each buyer.
RECURSIVE executeOuter(_, _, _, _, _)
executeOuter(x, stockSymbol, price, bsnap, i) ==
  IF x.done \/ x.db.err # NoError \/ i > Len(bsnap) THEN x
  ELSE executeOuter(
         executeInner(x, stockSymbol, price, bsnap[i].id, bsnap[i].q, x.so, 1),
         stockSymbol, price, bsnap, i + 1)

executeTrade(db, stockSymbol, price, quantity, buyerOrders, sellerOrders) ==
  executeOuter([db |-> db, bo |-> buyerOrders, so |-> sellerOrders,
                quantity |-> quantity, done |-> FALSE],
               stockSymbol, price, buyerOrders, 1)

\* history: the trades from position `from` on get their levels and pass
Tag(trades, from, buyLevel, sellLevel, pass) ==
  [i \in 1..Len(trades) |->
     IF i > from
     THEN [trades[i] EXCEPT !.buyLevel = buyLevel, !.sellLevel = sellLevel, !.pass = pass]
     ELSE trades[i]]

OppositeType(stockType) == IF stockType = "yes" THEN "no" ELSE "yes"

\* The for-loop of matchBuyOrder over the sorted prices of the opposite side.
\* y is [db, remainingQuantity, totalSpent, stop].  The level's `orders` are
\* changed in place by executeTrade; its `total` is not written.
RECURSIVE matchBuyLoop(_, _, _, _, _, _, _)
matchBuyLoop(y, stockSymbol, oppositeType, decimalPrice, userId, sellPrices, k) ==
  IF y.stop \/ y.db.err # NoError \/ k > Len(sellPrices) THEN y
  ELSE
    LET sellPrice == sellPrices[k] IN
    IF sellPrice > decimalPrice THEN [y EXCEPT !.stop = TRUE]
    ELSE
      LET level             == y.db.book[stockSymbol][oppositeType][sellPrice]
          availableQuantity == level.total
          matchedQuantity   == Min2(y.remainingQuantity, availableQuantity)
          r  == executeTrade(y.db, stockSymbol, sellPrice, matchedQuantity,
                             <<[id |-> userId, q |-> matchedQuantity]>>, level.orders)
          d1 == [r.db EXCEPT
                   !.book[stockSymbol][oppositeType][sellPrice].orders = r.so,
                   !.trades = Tag(@, Len(y.db.trades), 0, sellPrice, "taker")]
          rem == y.remainingQuantity - matchedQuantity
      IN  IF d1.err # NoError THEN [y EXCEPT !.db = d1]
          ELSE matchBuyLoop(
                 [db |-> d1, remainingQuantity |-> rem,
                  totalSpent |-> y.totalSpent + matchedQuantity * sellPrice,
                  stop |-> (rem = 0)],
                 stockSymbol, oppositeType, decimalPrice, userId, sellPrices, k + 1)

SellPricesOf(levels) == SortAsc(DOMAIN levels)

matchBuyOrder(db, stockSymbol, stockType, decimalPrice, decimalQuantity, userId) ==
  LET oppositeType == OppositeType(stockType)
      sellOrders   == db.book[stockSymbol][oppositeType]
      sellPrices   == SellPricesOf(sellOrders)
  IN  matchBuyLoop([db |-> db, remainingQuantity |-> decimalQuantity,
                    totalSpent |-> 0, stop |-> FALSE],
                   stockSymbol, oppositeType, decimalPrice, userId, sellPrices, 1)

\* a variant that takes the cost from the balance without adding it to locked
placePendingBuyOrderNoLock(db, stockSymbol, stockType, decimalPrice, remainingQuantity, userId) ==
  LET d1 == updateOrderbook(db, stockSymbol, stockType, decimalPrice,
                            remainingQuantity, userId)
  IN  IF d1.err # NoError THEN d1
      ELSE [d1 EXCEPT
              !.inr[userId].balance = @ - remainingQuantity * decimalPrice,
              !.pending = TRUE]

placePendingBuyOrder(db, stockSymbol, stockType, decimalPrice, remainingQuantity, userId) ==
  LET d1 == updateOrderbook(db, stockSymbol, stockType, decimalPrice,
                            remainingQuantity, userId)
  IN  IF d1.err # NoError THEN d1
      ELSE [d1 EXCEPT
              !.inr[userId].balance = @ - remainingQuantity * decimalPrice,
              !.inr[userId].locked  = @ + remainingQuantity * decimalPrice,
              !.pending = TRUE]

\* (yesPrice + noPrice) / 2 to two decimal places, decimal.js rounding half up
MatchPrice(yesPrice, noPrice) == (yesPrice + noPrice + 1) \div 2

ValidPrices(levels) == {p \in DOMAIN levels : isValidPrice(p)}

\* The while-loop of matchOrders.  z is [db, yesPrices, noPrices]: the store
\* and the two working lists of prices.
\* history: one iteration of the while-loop of matchOrders: the head pair it
\* looked at, whether it went on to trade, and how many prices the two
\* working lists held
Looked(yesPrice, noPrice, traded, left) ==
  [yesPrice |-> yesPrice, noPrice |-> noPrice, traded |-> traded, left |-> left]

\* a match quantity of at most one token, whatever the totals
matchQuantityByUnit(yesTotal, noTotal) == Min2(1, Min2(yesTotal, noTotal))

\* Decimal.min of the two totals
matchQuantityOf(yesTotal, noTotal) == Min2(yesTotal, noTotal)

RECURSIVE matchOrdersLoop(_, _)
matchOrdersLoop(z, stockSymbol) ==
  IF z.db.err # NoError \/ z.yesPrices = <<>> \/ z.noPrices = <<>> THEN z
  ELSE
    LET yesPrice == z.yesPrices[1]
        noPrice  == z.noPrices[1]
    IN
    IF ~ (yesPrice >= noPrice)
    THEN [z EXCEPT !.db.sweep =
            Append(@, Looked(yesPrice, noPrice, FALSE,
                             Len(z.yesPrices) + Len(z.noPrices)))]
    ELSE
      LET matchPrice    == MatchPrice(yesPrice, noPrice)
          yesOrder      == z.db.book[stockSymbol].yes[yesPrice]
          noOrder       == z.db.book[stockSymbol].no[noPrice]
          matchQuantity == matchQuantityOf(yesOrder.total, noOrder.total)
          seen == [z.db EXCEPT !.sweep =
                     Append(@, Looked(yesPrice, noPrice, TRUE,
                                      Len(z.yesPrices) + Len(z.noPrices)))]
          r  == executeTrade(seen, stockSymbol, matchPrice, matchQuantity,
                             yesOrder.orders, noOrder.orders)
          d1 == [r.db EXCEPT
                   !.book[stockSymbol].yes[yesPrice].orders = r.bo,
                   !.book[stockSymbol].no[noPrice].orders   = r.so,
                   !.trades = Tag(@, Len(z.db.trades), yesPrice, noPrice, "sweep")]
          yesTotal == yesOrder.total - matchQuantity
          noTotal  == noOrder.total - matchQuantity
          d2 == [d1 EXCEPT
                   !.book[stockSymbol].yes =
                      IF yesTotal = 0 THEN Drop(@, yesPrice)
                      ELSE [@ EXCEPT ![yesPrice].total = yesTotal],
                   !.book[stockSymbol].no =
                      IF noTotal = 0 THEN Drop(@, noPrice)
                      ELSE [@ EXCEPT ![noPrice].total = noTotal]]
      IN  IF d1.err # NoError THEN [z EXCEPT !.db = d1]
          ELSE matchOrdersLoop(
                 [db |-> d2,
                  yesPrices |-> IF yesTotal = 0 THEN Tail(z.yesPrices) ELSE z.yesPrices,
                  noPrices  |-> IF noTotal = 0 THEN Tail(z.noPrices) ELSE z.noPrices],
                 stockSymbol)

matchOrders(db, stockSymbol) ==
  IF stockSymbol \notin DOMAIN db.book THEN db
  ELSE matchOrdersLoop(
         [db |-> db,
          yesPrices |-> SortDesc(ValidPrices(db.book[stockSymbol].yes)),
          noPrices  |-> SortAsc(ValidPrices(db.book[stockSymbol].no))],
         stockSymbol).db

---------------------------------------------------------------------------
(* The request handlers.  Each returns the store it leaves behind; db.err   *)
(* is the message of the 400 response when the handler's catch was reached. *)

InvalidInput == "Invalid input / Price must be between 1 and 10"

buyStock(db, userId, stockSymbol, quantity, price, stockType) ==
  IF ~ validateInput(userId, stockSymbol, quantity, price, stockType)
  THEN Throw(db, InvalidInput)
  ELSE IF ~ checkStockSymbolExists(db, stockSymbol)
  THEN Throw(db, "Stock symbol not found")
  ELSE
    LET d1        == initialiseUserBalances(db, userId)
        totalCost == quantity * price
    IN  IF ~ checkSufficientBalance(d1, userId, totalCost)
        THEN Throw(d1, "Insufficient INR balance")
        ELSE
          LET m  == matchBuyOrder(d1, stockSymbol, stockType, price, quantity, userId)
              d2 == IF m.db.err = NoError /\ m.remainingQuantity > 0
                    THEN placePendingBuyOrder(m.db, stockSymbol, stockType, price,
                                              m.remainingQuantity, userId)
                    ELSE m.db
          IN  IF d2.err # NoError THEN d2
              ELSE [d2 EXCEPT
                      !.inr[userId].balance = @ - m.totalSpent,
                      !.msg = IF m.remainingQuantity = 0
                              THEN "Buy order fully matched"
                              ELSE "Buy order partially matched"]

placeSellOrder(db, userId, stockSymbol, quantity, price, stockType) ==
  IF ~ validateInput(userId, stockSymbol, quantity, price, stockType)
  THEN Throw(db, InvalidInput)
  ELSE
    LET d1 == initialiseUserBalances(db, userId) IN
    \* STOCK_BALANCES[userId][stockSymbol][stockType] is undefined
    IF stockSymbol \in DOMAIN d1.stock[userId] /\ stockType \notin {"yes", "no"}
    THEN Throw(d1, TypeError)
    ELSE IF ~ checkSufficientStockBalance(d1, userId, stockSymbol, stockType, quantity)
    THEN Throw(d1, "Insufficient stock balance")
    ELSE
      LET d2 == [d1 EXCEPT
                   !.stock[userId][stockSymbol][stockType].quantity = @ - quantity,
                   !.stock[userId][stockSymbol][stockType].locked   = @ + quantity]
          d3 == [updateOrderbook(d2, stockSymbol, stockType, price, quantity, userId)
                   EXCEPT !.placed = TRUE]
          d4 == matchOrders(d3, stockSymbol)
      IN  IF d4.err # NoError THEN d4 ELSE [d4 EXCEPT !.msg = "Sell order placed"]

\* a variant that leaves the user's entry in the level when it reaches 0
updateOrderbookAfterCancelKeepsEntry(db, stockSymbol, stockType, price, quantity, userId) ==
  LET level  == db.book[stockSymbol][stockType][price]
      total  == level.total - quantity
      q      == GetQ(level.orders, userId) - quantity
      orders == SetQ(level.orders, userId, q)
  IN  [db EXCEPT !.book[stockSymbol][stockType] =
         IF total = 0 THEN Drop(@, price)
         ELSE [@ EXCEPT ![price] = [total |-> total, orders |-> orders]]]

updateOrderbookAfterCancel(db, stockSymbol, stockType, price, quantity, userId) ==
  LET level  == db.book[stockSymbol][stockType][price]
      total  == level.total - quantity
      q      == GetQ(level.orders, userId) - quantity
      orders == IF q = 0 THEN DelKey(level.orders, userId)
                ELSE SetQ(level.orders, userId, q)
  IN  [db EXCEPT !.book[stockSymbol][stockType] =
         IF total = 0 THEN Drop(@, price)
         ELSE [@ EXCEPT ![price] = [total |-> total, orders |-> orders]]]

\* yes releases cash, anything else releases inventory of stockType; a user
\* without a position in the symbol makes the second branch throw
updateBalancesAfterCancel(db, userId, stockSymbol, stockType, price, quantity) ==
  IF stockType = "yes"
  THEN [db EXCEPT !.inr[userId].locked  = @ - quantity * price,
                  !.inr[userId].balance = @ + quantity * price]
  ELSE IF userId \notin DOMAIN db.stock THEN Throw(db, TypeError)
  ELSE IF stockSymbol \notin DOMAIN db.stock[userId] THEN Throw(db, TypeError)
  ELSE [db EXCEPT !.stock[userId][stockSymbol][stockType].locked   = @ - quantity,
                  !.stock[userId][stockSymbol][stockType].quantity = @ + quantity]

cancelOrder(db, userId, stockSymbol, quantity, price, stockType) ==
  IF ~ validateInput(userId, stockSymbol, quantity, price, stockType)
  THEN Throw(db, InvalidInput)
  ELSE IF stockSymbol \in DOMAIN db.book /\ stockType \notin {"yes", "no"}
  THEN Throw(db, TypeError)
  ELSE IF \/ stockSymbol \notin DOMAIN db.book
          \/ price \notin DOMAIN db.book[stockSymbol][stockType]
          \/ ~ HasKey(db.book[stockSymbol][stockType][price].orders, userId)
  THEN Throw(db, "Order not found")
  ELSE
    LET cancelQuantity ==
          Min2(quantity, GetQ(db.book[stockSymbol][stockType][price].orders, userId))
        d1 == updateOrderbookAfterCancel(db, stockSymbol, stockType, price,
                                         cancelQuantity, userId)
        d2 == updateBalancesAfterCancel(d1, userId, stockSymbol, stockType, price,
                                        cancelQuantity)
    IN  IF d2.err # NoError THEN d2 ELSE [d2 EXCEPT !.msg = "order canceled"]

validateMintTokensInput(userId, stockSymbol, quantity, price) ==
  ~ (quantity = 0 \/ price = 0 \/ quantity <= 0 \/ ~ isValidPrice(price))

\* a variant that credits the yes tokens only
updateBalancesAfterMintingYesOnly(db, userId, stockSymbol, quantity, totalCost) ==
  LET d1 == [db EXCEPT !.inr[userId].balance = @ - totalCost]
      d2 == ensureStockBalanceExists(d1, userId, stockSymbol)
  IN  [d2 EXCEPT !.stock[userId][stockSymbol].yes.quantity = @ + quantity]

updateBalancesAfterMinting(db, userId, stockSymbol, quantity, totalCost) ==
  LET d1 == [db EXCEPT !.inr[userId].balance = @ - totalCost]
      d2 == ensureStockBalanceExists(d1, userId, stockSymbol)
  IN  [d2 EXCEPT !.stock[userId][stockSymbol].yes.quantity = @ + quantity,
                 !.stock[userId][stockSymbol].no.quantity  = @ + quantity]

mintTokens(db, userId, stockSymbol, quantity, price) ==
  IF ~ validateMintTokensInput(userId, stockSymbol, quantity, price)
  THEN Throw(db, InvalidInput)
  ELSE
    LET d1        == initialiseUserBalances(db, userId)
        totalCost == quantity * price
    IN  IF ~ checkSufficientBalance(d1, userId, totalCost)
        THEN Throw(d1, "Insufficient INR balance")
        ELSE [updateBalancesAfterMinting(d1, userId, stockSymbol, quantity, totalCost)
                EXCEPT !.msg = "Minted"]

onrampINR(db, userId, amount) ==
  IF amount = 0 \/ amount <= 0 THEN Throw(db, "Invalid input")
  ELSE LET d1 == initialiseUserBalances(db, userId)
       IN  [d1 EXCEPT !.inr[userId].balance = @ + amount, !.msg = "Onramped"]

createUser(db, userId) ==
  [initialiseUserBalances(db, userId) EXCEPT !.msg = "User created"]

createSymbol(db, symbolName) ==
  IF symbolName \in DOMAIN db.book THEN Throw(db, "Symbol already exists")
  ELSE [db EXCEPT !.book = Put(@, symbolName, [yes |-> Empty, no |-> Empty]),
                  !.msg = "Symbol created"]

resetData(db) == [Store(Empty, Empty, Empty) EXCEPT !.msg = "Data reset successfully"]

---------------------------------------------------------------------------
(* The state machine: one action per route of the engine.                  *)

\* initialiseDummyData, in cents
SeedINR ==
  [user1 |-> [balance |-> 1000000, locked |-> 0],
   user2 |-> [balance |-> 2000000, locked |-> 500000],
   user3 |-> [balance |-> 1500000, locked |-> 200000]]

SeedBook ==
  (BTC :> [yes |-> (950 :> [total |-> 1200,
                            orders |-> <<[id |-> "user1", q |-> 200],
                                         [id |-> "user2", q |-> 1000]>>]
                 @@ 850 :> [total |-> 1200,
                            orders |-> <<[id |-> "user1", q |-> 300],
                                         [id |-> "user2", q |-> 300],
                                         [id |-> "user3", q |-> 600]>>]),
           no  |-> (1050 :> [total |-> 800,
                             orders |-> <<[id |-> "user2", q |-> 500],
                                          [id |-> "user3", q |-> 300]>>])])

SeedStock ==
  [user1 |-> (BTC :> [yes |-> [quantity |-> 100, locked |-> 0],
                      no  |-> [quantity |-> 50, locked |-> 0]]),
   user2 |-> (BTC :> [yes |-> [quantity |-> 200, locked |-> 100],
                      no  |-> [quantity |-> 150, locked |-> 50]]),
   user3 |-> (BTC :> [yes |-> [quantity |-> 150, locked |-> 50],
                      no  |-> [quantity |-> 100, locked |-> 0]])]

initialiseDummyData == Store(SeedINR, SeedBook, SeedStock)

Current == Store(INR_BALANCES, ORDERBOOK, STOCK_BALANCES)

\* the request as kept with a successful response; a failed one keeps only
\* the route, the error message and the trades settled before the throw
Request(op, userId, stockSymbol, stockType, price, quantity) ==
  [op |-> op, userId |-> userId, stockSymbol |-> stockSymbol,
   stockType |-> stockType, price |-> price, quantity |-> quantity]

Response(req, r) ==
  IF r.err = NoError
  THEN [req |-> req, ok |-> TRUE, message |-> r.msg, trades |-> r.trades]
  ELSE [req |-> Request(req.op, "", "", "", 0, 0), ok |-> FALSE,
        message |-> r.err, trades |-> r.trades]

Serve(req, r) ==
  /\ requests' = IF req.op = "reset" THEN 0 ELSE requests + 1
  /\ INR_BALANCES' = r.inr
  /\ ORDERBOOK' = r.book
  /\ STOCK_BALANCES' = r.stock
  /\ last' = Response(req, r)
  /\ origin' = IF req.op = "reset" THEN "empty" ELSE origin
  /\ sellPlaced' = IF req.op = "reset" THEN {}
                   ELSE IF r.placed
                   THEN sellPlaced \cup {<<req.userId, req.stockSymbol, req.stockType, req.price>>}
                   ELSE sellPlaced
  /\ buyPlaced' = IF req.op = "reset" THEN {}
                  ELSE IF r.pending
                  THEN buyPlaced \cup {<<req.userId, req.stockSymbol, req.stockType, req.price>>}
                  ELSE buyPlaced
  /\ sweep' = r.sweep
  /\ UNCHANGED <<redis, tasks, updates>>

\* the controller's database, not used by this engine
NoRedis == [users |-> Empty, orderbook |-> Empty, stockBalances |-> Empty]

InitWith(db, how) ==
  /\ INR_BALANCES = db.inr
  /\ ORDERBOOK = db.book
  /\ STOCK_BALANCES = db.stock
  /\ last = [req |-> Request("start", "", "", "", 0, 0), ok |-> TRUE,
             message |-> "", trades |-> <<>>]
  /\ origin = how
  /\ sellPlaced = {}
  /\ buyPlaced = {}
  /\ requests = 0
  /\ redis = NoRedis
  /\ sweep = <<>>
  /\ tasks = <<>>
  /\ updates = <<>>

\* the module as loaded (lines 3-5), or after the start-up call of
\* initialiseDummyData
Init == InitWith(Store(Empty, Empty, Empty), "empty") \/ InitWith(initialiseDummyData, "seed")

ResetRequest == Request("reset", "", "", "", 0, 0)

ResetData == Serve(ResetRequest, resetData(Current))

CreateUser(users) ==
  \E userId \in users :
    Serve(Request("createUser", userId, "", "", 0, 0), createUser(Current, userId))

CreateSymbol(symbols) ==
  \E symbolName \in symbols :
    Serve(Request("createSymbol", "", symbolName, "", 0, 0),
          createSymbol(Current, symbolName))

OnrampINR(users, amounts) ==
  \E userId \in users, amount \in amounts :
    Serve(Request("onramp", userId, "", "", 0, amount),
          onrampINR(Current, userId, amount))

BuyStock(users, symbols, quantities, prices, types) ==
  \E userId \in users, stockSymbol \in symbols, quantity \in quantities,
     price \in prices, stockType \in types :
    Serve(Request("buy", userId, stockSymbol, stockType, price, quantity),
          buyStock(Current, userId, stockSymbol, quantity, price, stockType))

PlaceSellOrder(users, symbols, quantities, prices, types) ==
  \E userId \in users, stockSymbol \in symbols, quantity \in quantities,
     price \in prices, stockType \in types :
    Serve(Request("sell", userId, stockSymbol, stockType, price, quantity),
          placeSellOrder(Current, userId, stockSymbol, quantity, price, stockType))

CancelOrder(users, symbols, quantities, prices, types) ==
  \E userId \in users, stockSymbol \in symbols, quantity \in quantities,
     price \in prices, stockType \in types :
    Serve(Request("cancel", userId, stockSymbol, stockType, price, quantity),
          cancelOrder(Current, userId, stockSymbol, quantity, price, stockType))

MintTokens(users, symbols, quantities, prices) ==
  \E userId \in users, stockSymbol \in symbols, quantity \in quantities,
     price \in prices :
    Serve(Request("mint", userId, stockSymbol, "", price, quantity),
          mintTokens(Current, userId, stockSymbol, quantity, price))

\* the exploration stops after MaxSeedRequests requests on seeded data and
\* after MaxRequests on data that began empty
Open == requests < (IF origin = "seed" THEN MaxSeedRequests ELSE MaxRequests)

Reset  == Open /\ ResetData
User   == Open /\ CreateUser(ReqUsers)
Symbol == Open /\ CreateSymbol(ReqSymbols)
Onramp == Open /\ OnrampINR(ReqUsers, ReqAmounts)
Buy    == Open /\ BuyStock(ReqUsers, ReqSymbols, ReqQuantity, ReqPrices, ReqTypes)
Sell   == Open /\ PlaceSellOrder(ReqUsers, ReqSymbols, ReqQuantity, ReqPrices, ReqTypes)
Cancel == Open /\ CancelOrder(ReqUsers, ReqSymbols, ReqQuantity, ReqPrices, ReqTypes)
Mint   == Open /\ MintTokens(ReqUsers, ReqSymbols, ReqQuantity, ReqPrices)

\* an order request whose stockType is neither yes nor no
BadType ==
  /\ Open
  /\ \/ BuyStock(ReqUsers, ReqSymbols, ReqQuantity, ReqPrices, BadTypes)
     \/ PlaceSellOrder(ReqUsers, ReqSymbols, ReqQuantity, ReqPrices, BadTypes)
     \/ CancelOrder(ReqUsers, ReqSymbols, ReqQuantity, ReqPrices, BadTypes)

Next == Reset \/ User \/ Symbol \/ Onramp \/ Buy \/ Sell \/ Cancel \/ Mint \/ BadType

Spec == Init /\ [][Next]_vars

---------------------------------------------------------------------------
(* Quantities the properties below are stated in.  A user without an entry  *)
(* counts as one with zero balances, a missing position as a zero position. *)

UserIds == {"user1", "user2", "user3"}

Outcomes == {"yes", "no"}

CashOf(inr, userId) ==
  IF userId \in DOMAIN inr THEN inr[userId] ELSE [balance |-> 0, locked |-> 0]

PositionOf(stock, userId, stockSymbol) ==
  IF userId \in DOMAIN stock /\ stockSymbol \in DOMAIN stock[userId]
  THEN stock[userId][stockSymbol] ELSE ZeroPosition

RECURSIVE SumOver(_, _)
SumOver(f, S) ==
  IF S = {} THEN 0
  ELSE LET x == CHOOSE y \in S : TRUE IN f[x] + SumOver(f, S \ {x})

TotalCash(inr) ==
  SumOver([u \in DOMAIN inr |-> inr[u].balance + inr[u].locked], DOMAIN inr)

\* every level of every book, as <<symbol, side, price>>
Levels(book) ==
  UNION {{<<s, o, p>> : p \in DOMAIN book[s][o]} : s \in DOMAIN book, o \in Outcomes}

LevelAt(book, k) == book[k[1]][k[2]][k[3]]

Served(ops) == last'.req.op \in ops

---------------------------------------------------------------------------
(* C1: over buy, sell and cancel requests the sum over all users of        *)
(* balance + locked stays what it was: each such request leaves it         *)
(* unchanged.                                                              *)
C1_CashConserved ==
  [][Served({"buy", "sell", "cancel"}) =>
       TotalCash(INR_BALANCES') = TotalCash(INR_BALANCES)]_vars

(* C2: in every reachable state every user's free cash, locked cash, and   *)
(* free and locked quantity of every symbol and outcome are >= 0.          *)
C2_NonNegative ==
  /\ \A u \in DOMAIN INR_BALANCES :
       INR_BALANCES[u].balance >= 0 /\ INR_BALANCES[u].locked >= 0
  /\ \A u \in DOMAIN STOCK_BALANCES : \A s \in DOMAIN STOCK_BALANCES[u] :
       \A o \in Outcomes :
         /\ STOCK_BALANCES[u][s][o].quantity >= 0
         /\ STOCK_BALANCES[u][s][o].locked >= 0

(* C3: after every request every price level of every book has total > 0,  *)
(* total equal to the sum of its per-user quantities, and no user entry of *)
(* quantity 0.                                                             *)
C3_LevelAggregation ==
  \A k \in Levels(ORDERBOOK) :
    LET level == LevelAt(ORDERBOOK, k)
    IN  /\ level.total > 0
        /\ level.total = SumQ(level.orders)
        /\ \A i \in 1..Len(level.orders) : level.orders[i].q # 0

\* the keys <<symbol, side, price>> of the levels that hold an entry of userId
RestingOf(book, userId) ==
  {k \in Levels(book) : HasKey(LevelAt(book, k).orders, userId)}

RestingQ(book, userId, k) == GetQ(LevelAt(book, k).orders, userId)

\* the ways to split the resting entries of userId into a part that rests from
\* buy orders (b[k]) and a part that rests from sell orders (the remainder)
Attributions(book, userId) ==
  LET R == RestingOf(book, userId)
      top == CHOOSE n \in 0..1000 : \A k \in R : RestingQ(book, userId, k) <= n
  IN  {b \in [R -> 0..top] : \A k \in R : b[k] <= RestingQ(book, userId, k)}

\* the taker trades of a response, and the quantity a seller gave in them
TakerTrades(trades) == {i \in 1..Len(trades) : trades[i].pass = "taker"}

RECURSIVE SumTrades(_, _, _)
SumTrades(trades, I, notional) ==
  IF I = {} THEN 0
  ELSE LET i == CHOOSE j \in I : TRUE
       IN  trades[i].quantity * (IF notional THEN trades[i].price ELSE 1)
           + SumTrades(trades, I \ {i}, notional)

Against(trades, sellerId) == {i \in TakerTrades(trades) : trades[i].seller = sellerId}

---------------------------------------------------------------------------
(* C4: on data that began empty, after every request each user's locked    *)
(* cash is the sum of q*p over the quantity the user has resting from buy  *)
(* orders, and the user's locked quantity of each (symbol, outcome) is the *)
(* quantity the user has resting from sell orders of it.  The book does    *)
(* not tell the two kinds of entry apart, so some split of the user's      *)
(* entries has to account for both locks.                                  *)
C4_LocksMatchResting ==
  origin = "empty" =>
    \A u \in DOMAIN INR_BALANCES :
      \E b \in Attributions(ORDERBOOK, u) :
        LET R == RestingOf(ORDERBOOK, u) IN
        /\ INR_BALANCES[u].locked = SumOver([k \in R |-> b[k] * k[3]], R)
        /\ \A s \in DOMAIN ORDERBOOK, o \in Outcomes :
             LET Rso == {k \in R : k[1] = s /\ k[2] = o}
             IN  PositionOf(STOCK_BALANCES, u, s)[o].locked =
                   SumOver([k \in Rso |-> RestingQ(ORDERBOOK, u, k) - b[k]], Rso)

(* C5: a buy, sell, cancel or mint request answered with an error leaves   *)
(* every cash balance, every position and the whole book as they were      *)
(* (a user or position the handler created with zero balances counts as    *)
(* unchanged).                                                             *)
C5_FailedRequestChangesNothing ==
  [][(Served({"buy", "sell", "cancel", "mint"}) /\ ~ last'.ok) =>
       /\ ORDERBOOK' = ORDERBOOK
       /\ \A u \in UserIds :
            /\ CashOf(INR_BALANCES', u) = CashOf(INR_BALANCES, u)
            /\ \A s \in ReqSymbols :
                 PositionOf(STOCK_BALANCES', u, s) = PositionOf(STOCK_BALANCES, u, s)]_vars

(* C6: after a successful buy by u at price p for quantity q whose taker   *)
(* pass traded k_i at level prices p_i: u's balance + locked fell by       *)
(* sum(k_i * p_i), u's locked cash rose by (q - sum(k_i)) * p, and every    *)
(* other maker's free cash rose by the notional of the trades against it.  *)
C6_BuySettlesCash ==
  [][(Served({"buy"}) /\ last'.ok) =>
       LET req    == last'.req
           trades == last'.trades
           T      == TakerTrades(trades)
           u      == req.userId
           before == CashOf(INR_BALANCES, u)
           after  == CashOf(INR_BALANCES', u)
           rest   == req.quantity - SumTrades(trades, T, FALSE)
       IN  /\ after.balance + after.locked =
                before.balance + before.locked - SumTrades(trades, T, TRUE)
           /\ after.locked = before.locked + rest * req.price
           /\ \A m \in UserIds \ {u} :
                CashOf(INR_BALANCES', m).balance =
                  CashOf(INR_BALANCES, m).balance
                    + SumTrades(trades, Against(trades, m), TRUE)]_vars

(* C7: a successful buy of outcome S whose taker pass traded k units in    *)
(* all: the buyer's free quantity of S rises by k, each maker's locked     *)
(* quantity of the complement of S falls by what it gave, and no other     *)
(* quantity of any (user, outcome) changes.                                *)
C7_BuySettlesTokens ==
  [][(Served({"buy"}) /\ last'.ok) =>
       LET req    == last'.req
           trades == last'.trades
           T      == TakerTrades(trades)
       IN  \A u \in UserIds, o \in Outcomes :
             LET before == PositionOf(STOCK_BALANCES, u, req.stockSymbol)[o]
                 after  == PositionOf(STOCK_BALANCES', u, req.stockSymbol)[o]
             IN  /\ after.quantity = before.quantity
                      + (IF u = req.userId /\ o = req.stockType
                         THEN SumTrades(trades, T, FALSE) ELSE 0)
                 /\ after.locked = before.locked
                      - (IF o = OppositeType(req.stockType)
                         THEN SumTrades(trades, Against(trades, u), FALSE) ELSE 0)]_vars

\* the levels the seed fixture fills: what rests there may rest from a sell
SeedLevels == IF origin = "seed" THEN Levels(SeedBook) ELSE {}

(* C8: the taker pass of a buy fills only quantity that a sell request     *)
(* placed: every other user who is the maker of a taker trade has placed a *)
(* sell order at that level of the opposite outcome (or the level is one   *)
(* of the seed's, whose entries may rest from sells).                      *)
C8_TakerFillsOnlySells ==
  (last.req.op = "buy" /\ last.ok) =>
    \A i \in TakerTrades(last.trades) :
      LET level == <<last.req.stockSymbol, OppositeType(last.req.stockType),
                     last.trades[i].sellLevel>>
      IN  \/ last.trades[i].seller = last.req.userId
          \/ <<last.trades[i].seller, level[1], level[2], level[3]>> \in sellPlaced
          \/ level \in SeedLevels

\* the valid prices of one side of a symbol's book
ValidSide(book, stockSymbol, side) == ValidPrices(book[stockSymbol][side])

(* C10: after a successful buy or sell on a symbol, if both sides of its   *)
(* book hold a level priced in [1,10], the highest such YES price is below *)
(* the lowest such NO price.                                               *)
C10_NoCrossingLeft ==
  (last.req.op \in {"buy", "sell"} /\ last.ok) =>
    \A y \in ValidSide(ORDERBOOK, last.req.stockSymbol, "yes"),
       n \in ValidSide(ORDERBOOK, last.req.stockSymbol, "no") : y < n

---------------------------------------------------------------------------
(* A longer session on data that began empty: the routes are served in the *)
(* order of Session, each with any user, quantity and outcome and with a   *)
(* price of SessionPrices.                                                 *)

Session ==
  <<"createSymbol", "onramp", "buy", "buy", "mint", "mint", "sell", "sell", "buy">>

SessionUsers      == {"user1"}
SessionPrices     == {800, 1000}
SessionMintPrices == {800}
SessionAmounts    == {10000}

Due(op) == requests < Len(Session) /\ Session[requests + 1] = op

SessionSymbol == Due("createSymbol") /\ CreateSymbol(ReqSymbols)
SessionOnramp == Due("onramp") /\ OnrampINR(SessionUsers, SessionAmounts)
SessionBuy    == Due("buy")
                 /\ BuyStock(SessionUsers, ReqSymbols, ReqQuantity, SessionPrices, ReqTypes)
SessionSell   == Due("sell")
                 /\ PlaceSellOrder(SessionUsers, ReqSymbols, ReqQuantity, SessionPrices, ReqTypes)
SessionMint   == Due("mint")
                 /\ MintTokens(SessionUsers, ReqSymbols, ReqQuantity, SessionMintPrices)

SessionNext == SessionSymbol \/ SessionOnramp \/ SessionBuy \/ SessionSell \/ SessionMint

SessionInit == InitWith(Store(Empty, Empty, Empty), "empty")

SessionSpec == SessionInit /\ [][SessionNext]_vars

(* C9: a buy with limit price p trades at no level priced above p, every   *)
(* taker trade is at the price of its level, the levels of the opposite    *)
(* outcome are visited in ascending price order, and a level is traded at  *)
(* only when every lower level the buy traded at has nothing left resting. *)
C9_AscendingLevels ==
  (last.req.op = "buy" /\ last.ok) =>
    LET trades == last.trades
        T      == TakerTrades(trades)
        side   == ORDERBOOK[last.req.stockSymbol][OppositeType(last.req.stockType)]
    IN  /\ \A i \in T : /\ trades[i].sellLevel <= last.req.price
                        /\ trades[i].price = trades[i].sellLevel
        /\ \A i, j \in T : i < j => trades[i].sellLevel <= trades[j].sellLevel
        /\ \A i, j \in T :
             trades[i].sellLevel < trades[j].sellLevel =>
               \/ trades[i].sellLevel \notin DOMAIN side
               \/ side[trades[i].sellLevel].orders = <<>>

---------------------------------------------------------------------------
\* the trades the book-sweep of a response settled
SweepTrades(trades) == {i \in 1..Len(trades) : trades[i].pass = "sweep"}

\* what a user pays in the trades I when each side pays its own level price
RECURSIVE OwnLevelCost(_, _, _)
OwnLevelCost(trades, I, userId) ==
  IF I = {} THEN 0
  ELSE LET i == CHOOSE j \in I : TRUE
           t == trades[i]
       IN  (IF t.buyer = userId THEN t.quantity * t.buyLevel ELSE 0)
           + (IF t.seller = userId THEN t.quantity * t.sellLevel ELSE 0)
           + OwnLevelCost(trades, I \ {i}, userId)

BoughtIn(trades, I, userId) == {i \in I : trades[i].buyer = userId}

SoldIn(trades, I, userId) == {i \in I : trades[i].seller = userId}

(* C11: when the book-sweep of a sell pairs k units between a holder of a  *)
(* YES level at py and a holder of a NO level at pn, the YES holder's      *)
(* locked cash falls by k*py and the NO holder's by k*pn, the YES holder's *)
(* free YES quantity and the NO holder's free NO quantity rise by k, and   *)
(* no free cash and no locked quantity changes (other than the quantity    *)
(* the sell itself moved from free to locked).                             *)
C11_SweepSettlement ==
  [][(Served({"sell"}) /\ last'.ok /\ SweepTrades(last'.trades) # {}) =>
       LET req    == last'.req
           trades == last'.trades
           T      == SweepTrades(trades)
           sold(u, o) == IF u = req.userId /\ o = req.stockType
                         THEN req.quantity ELSE 0
       IN  \A u \in UserIds :
             LET cash   == CashOf(INR_BALANCES, u)
                 cash2  == CashOf(INR_BALANCES', u)
                 pos    == PositionOf(STOCK_BALANCES, u, req.stockSymbol)
                 pos2   == PositionOf(STOCK_BALANCES', u, req.stockSymbol)
             IN  /\ cash2.locked = cash.locked - OwnLevelCost(trades, T, u)
                 /\ cash2.balance = cash.balance
                 /\ pos2.yes.quantity = pos.yes.quantity - sold(u, "yes")
                      + SumTrades(trades, BoughtIn(trades, T, u), FALSE)
                 /\ pos2.no.quantity = pos.no.quantity - sold(u, "no")
                      + SumTrades(trades, SoldIn(trades, T, u), FALSE)
                 /\ \A o \in Outcomes : pos2[o].locked = pos[o].locked + sold(u, o)]_vars

---------------------------------------------------------------------------
\* the ledgers of every user, and the ledgers of every user but one, are as
\* they were
SameCash(users) ==
  \A u \in users : CashOf(INR_BALANCES', u) = CashOf(INR_BALANCES, u)

SamePositions(users) ==
  \A u \in users, s \in ReqSymbols :
    PositionOf(STOCK_BALANCES', u, s) = PositionOf(STOCK_BALANCES, u, s)

NothingChanged ==
  SameCash(UserIds) /\ SamePositions(UserIds) /\ ORDERBOOK' = ORDERBOOK

\* the level at a key of the book, an absent level being an empty one
LevelOrEmpty(book, stockSymbol, side, price) ==
  IF stockSymbol \in DOMAIN book /\ price \in DOMAIN book[stockSymbol][side]
  THEN book[stockSymbol][side][price]
  ELSE [total |-> 0, orders |-> <<>>]

EntryOf(level, userId) == IF HasKey(level.orders, userId) THEN GetQ(level.orders, userId) ELSE 0

\* the level (s, S, p) and the user's entry in it grew by q
LevelGrew(req) ==
  LET old == LevelOrEmpty(ORDERBOOK, req.stockSymbol, req.stockType, req.price)
      new == LevelOrEmpty(ORDERBOOK', req.stockSymbol, req.stockType, req.price)
  IN  /\ new.total = old.total + req.quantity
      /\ EntryOf(new, req.userId) = EntryOf(old, req.userId) + req.quantity

(* C13: a successful mint by u of q at p takes q*p from u's free cash,     *)
(* leaves u's locked cash, adds q to u's free YES and free NO quantity of  *)
(* the symbol and changes nothing else; a mint is accepted only if q*p is  *)
(* at most u's free cash, and a rejected mint changes no balance, position *)
(* or book.                                                                *)
C13_MintSettlement ==
  [][Served({"mint"}) =>
       IF last'.ok
       THEN LET req  == last'.req
                u    == req.userId
                cost == req.quantity * req.price
                cash == CashOf(INR_BALANCES, u)
                pos  == PositionOf(STOCK_BALANCES, u, req.stockSymbol)
                pos2 == PositionOf(STOCK_BALANCES', u, req.stockSymbol)
            IN  /\ cost <= cash.balance
                /\ CashOf(INR_BALANCES', u) =
                     [balance |-> cash.balance - cost, locked |-> cash.locked]
                /\ \A o \in Outcomes :
                     /\ pos2[o].quantity = pos[o].quantity + req.quantity
                     /\ pos2[o].locked = pos[o].locked
                /\ SameCash(UserIds \ {u}) /\ SamePositions(UserIds \ {u})
                /\ ORDERBOOK' = ORDERBOOK
       ELSE NothingChanged]_vars

C13_Minted ==
  /\ last.req.op = "mint" /\ last.ok
  /\ \A o \in Outcomes :
       PositionOf(STOCK_BALANCES, last.req.userId, last.req.stockSymbol)[o].quantity
         >= last.req.quantity

(* C14: a successful buy by u of q of outcome S at p, made when the book   *)
(* of the other outcome has no level priced <= p, rests entirely: u's free *)
(* cash falls by q*p and u's locked cash rises by q*p, the level (s, S, p) *)
(* and u's entry in it grow by q, and no position and no other user's cash *)
(* changes.                                                                *)
C14_BuyRests ==
  [][(/\ Served({"buy"}) /\ last'.ok
      /\ last'.req.stockType \in ReqTypes
      /\ \A price \in DOMAIN ORDERBOOK[last'.req.stockSymbol]
                                       [OppositeType(last'.req.stockType)] :
           price > last'.req.price) =>
       LET req  == last'.req
           u    == req.userId
           cost == req.quantity * req.price
           cash == CashOf(INR_BALANCES, u)
       IN  /\ CashOf(INR_BALANCES', u) =
                [balance |-> cash.balance - cost, locked |-> cash.locked + cost]
           /\ LevelGrew(req)
           /\ SameCash(UserIds \ {u}) /\ SamePositions(UserIds)]_vars

C14_Rested ==
  /\ last.req.op = "buy" /\ last.ok /\ last.trades = <<>>
  /\ last.req.stockType \in ReqTypes
  /\ \A price \in DOMAIN ORDERBOOK[last.req.stockSymbol][OppositeType(last.req.stockType)] :
       price > last.req.price
  /\ EntryOf(LevelOrEmpty(ORDERBOOK, last.req.stockSymbol, last.req.stockType,
                          last.req.price), last.req.userId) >= last.req.quantity

\* with the level (s, S, p) added, no valid YES price reaches a valid NO price:
\* the book-sweep that follows the sell has nothing to pair
NothingToSweep(book, req) ==
  LET added(o) == IF req.stockType = o /\ isValidPrice(req.price) THEN {req.price} ELSE {}
      sides    == IF req.stockSymbol \in DOMAIN book THEN book[req.stockSymbol]
                  ELSE [yes |-> Empty, no |-> Empty]
  IN  \A y \in ValidPrices(sides.yes) \cup added("yes"),
         n \in ValidPrices(sides.no) \cup added("no") : y < n

(* C15: a sell by u of q of (s, S) at p is accepted only if u's free       *)
(* quantity of (s, S) is at least q; it moves q from u's free to u's       *)
(* locked quantity of (s, S), adds q to the level (s, S, p) and to u's     *)
(* entry there and changes no cash (seen where the book-sweep that follows *)
(* has nothing to pair); a sell rejected for insufficient stock changes    *)
(* nothing.                                                                *)
C15_SellRests ==
  [][Served({"sell"}) =>
       /\ last'.ok =>
            LET req  == last'.req
                u    == req.userId
                S    == req.stockType
                pos  == PositionOf(STOCK_BALANCES, u, req.stockSymbol)
                pos2 == PositionOf(STOCK_BALANCES', u, req.stockSymbol)
            IN  /\ pos[S].quantity >= req.quantity
                /\ NothingToSweep(ORDERBOOK, req) =>
                     /\ pos2[S] = [quantity |-> pos[S].quantity - req.quantity,
                                   locked   |-> pos[S].locked + req.quantity]
                     /\ pos2[OppositeType(S)] = pos[OppositeType(S)]
                     /\ LevelGrew(req)
                     /\ SameCash(UserIds) /\ SamePositions(UserIds \ {u})
       /\ (~ last'.ok /\ last'.message = "Insufficient stock balance") => NothingChanged]_vars

C15_SellRested ==
  /\ last.req.op = "sell" /\ last.ok /\ last.trades = <<>>
  /\ \A y \in ValidSide(ORDERBOOK, last.req.stockSymbol, "yes"),
        n \in ValidSide(ORDERBOOK, last.req.stockSymbol, "no") : y < n
  /\ EntryOf(LevelOrEmpty(ORDERBOOK, last.req.stockSymbol, last.req.stockType,
                          last.req.price), last.req.userId) >= last.req.quantity

---------------------------------------------------------------------------
(* A session of two users on data that began empty: Round gives the route  *)
(* and the user of each request; quantity, outcome and price are any.      *)

Round ==
  << [op |-> "createSymbol", userId |-> ""],
     [op |-> "onramp", userId |-> "user1"],
     [op |-> "onramp", userId |-> "user2"],
     [op |-> "buy",    userId |-> "user1"],
     [op |-> "buy",    userId |-> "user1"],
     [op |-> "mint",   userId |-> "user1"],
     [op |-> "mint",   userId |-> "user2"],
     [op |-> "sell",   userId |-> "user1"],
     [op |-> "sell",   userId |-> "user2"],
     [op |-> "cancel", userId |-> "user1"] >>

RoundDue(op) == requests < Len(Round) /\ Round[requests + 1].op = op

RoundUser == {Round[requests + 1].userId}

\* 15 is less than the cost of two units at 10
RoundAmounts == {1500, 10000}

RoundSymbol == RoundDue("createSymbol") /\ CreateSymbol(ReqSymbols)
RoundOnramp == RoundDue("onramp") /\ OnrampINR(RoundUser, RoundAmounts)
RoundBuy    == RoundDue("buy")
               /\ BuyStock(RoundUser, ReqSymbols, ReqQuantity, SessionPrices, ReqTypes)
RoundSell   == RoundDue("sell")
               /\ PlaceSellOrder(RoundUser, ReqSymbols, ReqQuantity, SessionPrices, ReqTypes)
RoundMint   == RoundDue("mint")
               /\ MintTokens(RoundUser, ReqSymbols, ReqQuantity, SessionMintPrices)
RoundCancel == RoundDue("cancel")
               /\ CancelOrder(RoundUser, ReqSymbols, ReqQuantity, SessionPrices, ReqTypes)

RoundNext ==
  RoundSymbol \/ RoundOnramp \/ RoundBuy \/ RoundSell \/ RoundMint \/ RoundCancel

RoundInit == InitWith(Store(Empty, Empty, Empty), "empty")

RoundSpec == RoundInit /\ [][RoundNext]_vars

(* C16: a cancel by u of q at the level (s, S, p) where u owns q_owned > 0 *)
(* takes min(q, q_owned) from u's entry and from the level's total,        *)
(* deletes the entry when it reaches 0 and the level when its total        *)
(* reaches 0, and changes no other level and no other user's entry; a      *)
(* cancel answered order-not-found changes nothing.                        *)
C16_CancelReducesLevel ==
  [][Served({"cancel"}) =>
       /\ last'.ok =>
            LET req   == last'.req
                u     == req.userId
                key   == <<req.stockSymbol, req.stockType, req.price>>
                old   == LevelOrEmpty(ORDERBOOK, req.stockSymbol, req.stockType, req.price)
                new   == LevelOrEmpty(ORDERBOOK', req.stockSymbol, req.stockType, req.price)
                owned == EntryOf(old, u)
                c     == Min2(req.quantity, owned)
            IN  owned > 0 =>
                  /\ EntryOf(new, u) = owned - c
                  /\ (owned - c = 0) => ~ HasKey(new.orders, u)
                  /\ IF old.total - c = 0 THEN key \notin Levels(ORDERBOOK')
                     ELSE new.total = old.total - c
                  /\ \A v \in UserIds \ {u} : EntryOf(new, v) = EntryOf(old, v)
                  /\ \A k \in Levels(ORDERBOOK) \ {key} :
                       k \in Levels(ORDERBOOK') /\ LevelAt(ORDERBOOK', k) = LevelAt(ORDERBOOK, k)
                  /\ Levels(ORDERBOOK') \subseteq Levels(ORDERBOOK)
       /\ (~ last'.ok /\ last'.message = "Order not found") => NothingChanged]_vars

(* C17: cancelling q of a resting buy at price p moves q*p from the user's *)
(* locked cash to free cash and changes no inventory; cancelling q of a    *)
(* resting sell moves q from the user's locked quantity of the outcome to  *)
(* its free quantity and changes no cash; the outcome does not decide      *)
(* which ledger is unlocked.                                               *)
C17_CancelUnlocksBySide ==
  [][(Served({"cancel"}) /\ last'.ok) =>
       LET req   == last'.req
           u     == req.userId
           s     == req.stockSymbol
           S     == req.stockType
           key   == <<u, s, S, req.price>>
           old   == LevelOrEmpty(ORDERBOOK, s, S, req.price)
           c     == Min2(req.quantity, EntryOf(old, u))
           pos   == PositionOf(STOCK_BALANCES, u, s)
           pos2  == PositionOf(STOCK_BALANCES', u, s)
       IN  /\ (key \in buyPlaced /\ key \notin sellPlaced) =>
                /\ CashOf(INR_BALANCES', u).locked  = CashOf(INR_BALANCES, u).locked - c * req.price
                /\ CashOf(INR_BALANCES', u).balance = CashOf(INR_BALANCES, u).balance + c * req.price
                /\ SamePositions(UserIds)
           /\ (key \in sellPlaced /\ key \notin buyPlaced) =>
                /\ pos2[S].locked   = pos[S].locked - c
                /\ pos2[S].quantity = pos[S].quantity + c
                /\ SameCash(UserIds)]_vars

\* the same cancel request served once more, on the data the first one left
CancelAgain(inr, book, stock, req) ==
  cancelOrder(Store(inr, book, stock), req.userId, req.stockSymbol,
              req.quantity, req.price, req.stockType)

NoFurtherEffect(r, inr, book, stock) ==
  /\ r.err = "Order not found"
  /\ r.inr = inr /\ r.book = book /\ r.stock = stock

(* C18 as stated: a successful cancel(q) followed immediately by a second  *)
(* cancel(q) on the same key has no further effect on book or ledgers, and *)
(* the second call reports order-not-found.                                *)
C18_CancelTwice ==
  [][(Served({"cancel"}) /\ last'.ok) =>
       NoFurtherEffect(CancelAgain(INR_BALANCES', ORDERBOOK', STOCK_BALANCES', last'.req),
                       INR_BALANCES', ORDERBOOK', STOCK_BALANCES')]_vars

(* C18 amended: a successful cancel(q) with q at least the quantity the    *)
(* user has resting at the key, followed immediately by a second cancel(q) *)
(* on the same key, has no further effect on book or ledgers, and the      *)
(* second call reports order-not-found.                                    *)
C18_FullCancelTwice ==
  [][(/\ Served({"cancel"}) /\ last'.ok
      /\ last'.req.quantity >=
           EntryOf(LevelOrEmpty(ORDERBOOK, last'.req.stockSymbol,
                                last'.req.stockType, last'.req.price),
                   last'.req.userId)) =>
       NoFurtherEffect(CancelAgain(INR_BALANCES', ORDERBOOK', STOCK_BALANCES', last'.req),
                       INR_BALANCES', ORDERBOOK', STOCK_BALANCES')]_vars

\* a cancel has just removed the user's whole entry from a level that stays
\* in the book, and the same cancel once more is answered order-not-found
C18_CancelledAll ==
  /\ last.req.op = "cancel" /\ last.ok
  /\ <<last.req.stockSymbol, last.req.stockType, last.req.price>> \in Levels(ORDERBOOK)
  /\ ~ HasKey(ORDERBOOK[last.req.stockSymbol][last.req.stockType][last.req.price].orders,
              last.req.userId)
  /\ CancelAgain(INR_BALANCES, ORDERBOOK, STOCK_BALANCES, last.req).err = "Order not found"

(* C19: a buy by an existing user whose free cash is less than q*p is      *)
(* rejected with the insufficient-balance error before any matching: no    *)
(* trade executes, no order rests, and every balance, position and book    *)
(* level is unchanged.                                                     *)
C19_InsufficientCashRejected ==
  \A u \in ReqUsers \cap DOMAIN INR_BALANCES, s \in ReqSymbols \cap DOMAIN ORDERBOOK,
     S \in ReqTypes, p \in ReqPrices, q \in ReqQuantity :
    (validateInput(u, s, q, p, S) /\ INR_BALANCES[u].balance < q * p) =>
      LET r == buyStock(Current, u, s, q, p, S)
      IN  /\ r.err = "Insufficient INR balance"
          /\ r.trades = <<>> /\ ~ r.pending
          /\ r.inr = INR_BALANCES /\ r.book = ORDERBOOK /\ r.stock = STOCK_BALANCES

\* a buy has just been rejected for its cash, and the only user who buys in
\* the session has cash from an earlier onramp
C19_Rejected ==
  /\ last.req.op = "buy" /\ ~ last.ok
  /\ last.message = "Insufficient INR balance"
  /\ \A i \in 1..Len(Round) : Round[i].op = "buy" => Round[i].userId = "user1"
  /\ CashOf(INR_BALANCES, "user1").balance > 0

(* C20: a buy, sell or cancel request whose outcome field is anything but  *)
(* yes or no is rejected as invalid input before any state is touched: it  *)
(* is never served with success, no trade executes, and a request answered *)
(* with the invalid-input error changes no balance, position or level.     *)
C20_OutcomeValidated ==
  [][Served({"buy", "sell", "cancel"}) =>
       /\ last'.ok => last'.req.stockType \in {"yes", "no"}
       /\ last'.message = InvalidInput => (NothingChanged /\ last'.trades = <<>>)]_vars

---------------------------------------------------------------------------
(* The Redis-backed controller, src/controllers/index.controller.js.  Its  *)
(* data are three Redis hashes read and written whole per field by         *)
(* redisService.hget / hset (JSON.parse / JSON.stringify), taken here to   *)
(* be the service object of the redis service file.  Cash fields hold      *)
(* Decimal strings and are modelled by their value in cents.  Quantity     *)
(* fields and level totals hold the strings that + and toString() leave    *)
(* in them; a string is a sequence of one-character strings.               *)

MaxCtlRequests == 3

CtlUsers  == {"user1", "user2", "user4"}
CtlTypes  == {"yes", "no", "maybe"}
CtlPrices == {100, 800, 1050}
CtlAmounts == {0, 5000}

Digits == <<"0", "1", "2", "3", "4", "5", "6", "7", "8", "9">>

IsDigit(c) == \E d \in 1..10 : Digits[d] = c

DigitOf(c) == (CHOOSE d \in 1..10 : Digits[d] = c) - 1

\* Number.prototype.toString of an integer
RECURSIVE NatStr(_)
NatStr(n) ==
  IF n < 10 THEN <<Digits[n + 1]>> ELSE NatStr(n \div 10) \o <<Digits[(n % 10) + 1]>>

Str(n) == IF n < 0 THEN <<"-">> \o NatStr(0 - n) ELSE NatStr(n)

\* parseInt: an optional sign and the digits up to the first other character
RECURSIVE LeadingNat(_, _)
LeadingNat(s, acc) ==
  IF s = <<>> \/ ~ IsDigit(Head(s)) THEN acc
  ELSE LeadingNat(Tail(s), acc * 10 + DigitOf(Head(s)))

ParseInt(s) ==
  IF s # <<>> /\ Head(s) = "-" THEN 0 - LeadingNat(Tail(s), 0) ELSE LeadingNat(s, 0)

\* a + q where q is a Decimal: q's primitive value is its string, so the sum
\* is the concatenation of String(a) and q.toString()
PlusDecimal(a, q) == a \o q

CtlStore(r) ==
  [users |-> r.users, orderbook |-> r.orderbook, stockBalances |-> r.stockBalances,
   err |-> NoError, msg |-> "", trades |-> <<>>, sweep |-> <<>>, events |-> <<>>]

\* redisService.publish on the channel "updates".  The message is kept with
\* the hashes as they are when it is sent: the writes awaited before it.
Publish(db, event) ==
  [db EXCEPT !.events =
     Append(@, [event |-> event,
                store |-> [users |-> db.users, orderbook |-> db.orderbook,
                           stockBalances |-> db.stockBalances]])]

ctl_SeedUsers ==
  [user1 |-> [balance |-> 1000000, locked |-> 0],
   user2 |-> [balance |-> 2000000, locked |-> 500000],
   user3 |-> [balance |-> 1500000, locked |-> 200000]]

ctl_SeedBook ==
  [yes |-> (950 :> [total |-> Str(1200),
                    orders |-> << [id |-> "user1", q |-> Str(200)],
                                  [id |-> "user2", q |-> Str(1000)] >>]
            @@ 850 :> [total |-> Str(1200),
                       orders |-> << [id |-> "user1", q |-> Str(300)],
                                     [id |-> "user2", q |-> Str(300)],
                                     [id |-> "user3", q |-> Str(600)] >>]),
   no  |-> (1050 :> [total |-> Str(800),
                     orders |-> << [id |-> "user2", q |-> Str(500)],
                                   [id |-> "user3", q |-> Str(300)] >>])]

ctl_Position(yq, yl, nq, nl) ==
  [yes |-> [quantity |-> Str(yq), locked |-> Str(yl)],
   no  |-> [quantity |-> Str(nq), locked |-> Str(nl)]]

ctl_SeedStock ==
  [user1 |-> (BTC :> ctl_Position(100, 0, 50, 0)),
   user2 |-> (BTC :> ctl_Position(200, 100, 150, 50)),
   user3 |-> (BTC :> ctl_Position(150, 50, 100, 0))]

\* hset of the seed fields: fields of other names stay
ctl_initialiseDummyData(db) ==
  [db EXCEPT
     !.users = [u \in DOMAIN @ \cup DOMAIN ctl_SeedUsers |->
                  IF u \in DOMAIN ctl_SeedUsers THEN ctl_SeedUsers[u] ELSE @[u]],
     !.orderbook = Put(@, BTC, ctl_SeedBook),
     !.stockBalances = [u \in DOMAIN @ \cup DOMAIN ctl_SeedStock |->
                          IF u \in DOMAIN ctl_SeedStock THEN ctl_SeedStock[u] ELSE @[u]]]

\* hdel of the field "all", which no hash has, then the seed again
ctl_resetData(db) ==
  Publish([ctl_initialiseDummyData(db) EXCEPT !.msg = "Data reset successfully"],
          "dataReset")

\* the error validateInput throws, NoError when it throws none
ctl_validateInput(userId, stockSymbol, quantity, price, stockType) ==
  IF userId = "" \/ stockSymbol = "" \/ quantity = 0 \/ price = 0 \/ stockType = ""
  THEN "Missing required parameters"
  ELSE IF quantity <= 0 THEN "Quantity must be a positive integer"
  ELSE IF ~ isValidPrice(price) THEN "Price must be between 1 and 10"
  ELSE IF stockType # "yes" /\ stockType # "no" THEN "Invalid stock type"
  ELSE NoError

ctl_checkStockSymbolExists(db, stockSymbol) == stockSymbol \in DOMAIN db.orderbook

ctl_checkSufficientStockBalance(db, userId, stockSymbol, stockType, quantity) ==
  ~ (\/ userId \notin DOMAIN db.stockBalances
     \/ stockSymbol \notin DOMAIN db.stockBalances[userId]
     \/ ParseInt(db.stockBalances[userId][stockSymbol][stockType].quantity) < quantity)

\* quantity is the string of the Decimal the caller passes
ctl_updateOrderbook(db, stockSymbol, side, price, quantity, userId) ==
  LET orderbook == IF stockSymbol \in DOMAIN db.orderbook THEN db.orderbook[stockSymbol]
                   ELSE [yes |-> Empty, no |-> Empty]
      level     == IF price \in DOMAIN orderbook[side] THEN orderbook[side][price]
                   ELSE [total |-> Str(0), orders |-> <<>>]
      mine      == IF HasKey(level.orders, userId) THEN GetQ(level.orders, userId)
                   ELSE Str(0)
      level2    == [total  |-> PlusDecimal(level.total, quantity),
                    orders |-> SetQ(level.orders, userId, PlusDecimal(mine, quantity))]
  IN  [db EXCEPT !.orderbook =
         Put(@, stockSymbol, [orderbook EXCEPT ![side] = Put(@, price, level2)])]

\* four hget, the changes on the four copies, then four hset in this order:
\* when both ids are one user the later copy replaces the earlier one
ctl_updateBalancesAfterTrade(db, yesUserId, noUserId, stockSymbol, price, quantity) ==
  IF \/ yesUserId \notin DOMAIN db.users \/ noUserId \notin DOMAIN db.users
     \/ yesUserId \notin DOMAIN db.stockBalances
     \/ noUserId \notin DOMAIN db.stockBalances
  THEN Throw(db, TypeError)
  ELSE IF \/ stockSymbol \notin DOMAIN db.stockBalances[yesUserId]
          \/ stockSymbol \notin DOMAIN db.stockBalances[noUserId]
  THEN Throw(db, TypeError)
  ELSE
    LET yesUserBalance   == [db.users[yesUserId] EXCEPT !.locked = @ - quantity * price]
        noUserBalance    == [db.users[noUserId] EXCEPT !.balance = @ + quantity * price]
        yesStockBalances == [db.stockBalances[yesUserId] EXCEPT
                               ![stockSymbol].yes.quantity = Str(ParseInt(@) + quantity),
                               ![stockSymbol].yes.locked   = Str(ParseInt(@) - quantity)]
        noStockBalances  == [db.stockBalances[noUserId] EXCEPT
                               ![stockSymbol].no.quantity = Str(ParseInt(@) - quantity),
                               ![stockSymbol].no.locked   = Str(ParseInt(@) - quantity)]
    IN  [db EXCEPT
           !.users = Put(Put(@, yesUserId, yesUserBalance), noUserId, noUserBalance),
           !.stockBalances =
              Put(Put(@, yesUserId, yesStockBalances), noUserId, noStockBalances)]

\* quantity is a Number: after the first pair has been settled,
\* quantity.minus is not a function and the handler's catch takes over
ctl_executeTrade(db, stockSymbol, price, quantity, yesOrders, noOrders) ==
  IF yesOrders = <<>> \/ noOrders = <<>> THEN db
  ELSE
    LET tradeQuantity == Min3(ParseInt(yesOrders[1].q), ParseInt(noOrders[1].q), quantity)
        d1 == ctl_updateBalancesAfterTrade(db, yesOrders[1].id, noOrders[1].id,
                                            stockSymbol, price, tradeQuantity)
    IN  Throw(d1, TypeError)

\* The while-loop of matchOrders.  z is [db, orderbook, yesPrices, noPrices]:
\* the store, the copy of the book read at the start and the working lists.
RECURSIVE ctl_matchOrdersLoop(_, _)
ctl_matchOrdersLoop(z, stockSymbol) ==
  IF z.yesPrices = <<>> \/ z.noPrices = <<>>
  THEN [z.db EXCEPT !.orderbook = Put(@, stockSymbol, z.orderbook)]
  ELSE
    LET yesPrice == Head(z.yesPrices)
        noPrice  == Head(z.noPrices)
    IN  IF yesPrice + noPrice = 1050
        THEN
          LET yesOrder == z.orderbook.yes[yesPrice]
              noOrder  == z.orderbook.no[noPrice]
              matchQuantity == Min2(ParseInt(yesOrder.total), ParseInt(noOrder.total))
              seen == [z.db EXCEPT !.sweep = Append(@, Looked(yesPrice, noPrice, TRUE,
                                                    Len(z.yesPrices) + Len(z.noPrices)))]
              d1 == ctl_executeTrade(seen, stockSymbol, yesPrice, matchQuantity,
                                     yesOrder.orders, noOrder.orders)
              yesTotal == ParseInt(yesOrder.total) - matchQuantity
              noTotal  == ParseInt(noOrder.total) - matchQuantity
              yes2 == IF yesTotal = 0 THEN Drop(z.orderbook.yes, yesPrice)
                      ELSE [z.orderbook.yes EXCEPT ![yesPrice].total = Str(yesTotal)]
              no2  == IF noTotal = 0 THEN Drop(z.orderbook.no, noPrice)
                      ELSE [z.orderbook.no EXCEPT ![noPrice].total = Str(noTotal)]
          IN  IF d1.err # NoError THEN d1
              ELSE ctl_matchOrdersLoop(
                     [db |-> d1, orderbook |-> [yes |-> yes2, no |-> no2],
                      yesPrices |-> IF yesTotal = 0 THEN Tail(z.yesPrices) ELSE z.yesPrices,
                      noPrices  |-> IF noTotal = 0 THEN Tail(z.noPrices) ELSE z.noPrices],
                     stockSymbol)
        ELSE IF yesPrice + noPrice > 1050
        THEN ctl_matchOrdersLoop(
               [z EXCEPT !.db.sweep = Append(@, Looked(yesPrice, noPrice, FALSE,
                                                       Len(z.yesPrices) + Len(z.noPrices))),
                         !.noPrices = Tail(@)], stockSymbol)
        ELSE ctl_matchOrdersLoop(
               [z EXCEPT !.db.sweep = Append(@, Looked(yesPrice, noPrice, FALSE,
                                                       Len(z.yesPrices) + Len(z.noPrices))),
                         !.yesPrices = Tail(@)], stockSymbol)

ctl_matchOrders(db, stockSymbol) ==
  IF stockSymbol \notin DOMAIN db.orderbook THEN db
  ELSE
    LET orderbook == db.orderbook[stockSymbol]
    IN  ctl_matchOrdersLoop(
          [db |-> db, orderbook |-> orderbook,
           yesPrices |-> SortDesc(ValidPrices(orderbook.yes)),
           noPrices  |-> SortAsc(ValidPrices(orderbook.no))], stockSymbol)

\* quantity is the Number of the request; the Decimal passed on adds as its
\* string, except under the minus of the free quantity
ctl_placePendingSellOrder(db, stockSymbol, stockType, price, quantity, userId) ==
  LET d1 == ctl_updateOrderbook(db, stockSymbol, stockType, price, Str(quantity), userId)
  IN  [d1 EXCEPT
         !.stockBalances[userId][stockSymbol][stockType].quantity =
            Str(ParseInt(@) - quantity),
         !.stockBalances[userId][stockSymbol][stockType].locked =
            PlusDecimal(Str(ParseInt(@)), Str(quantity))]

ctl_placeSellOrder(db, userId, stockSymbol, quantity, price, stockType) ==
  LET e == ctl_validateInput(userId, stockSymbol, quantity, price, stockType)
  IN  IF e # NoError THEN Throw(db, e)
      ELSE IF ~ ctl_checkSufficientStockBalance(db, userId, stockSymbol, stockType, quantity)
      THEN Throw(db, "Insufficient stock balance")
      ELSE
        LET d1 == ctl_placePendingSellOrder(db, stockSymbol, stockType, price,
                                            quantity, userId)
            d2 == ctl_matchOrders(d1, stockSymbol)
        IN  IF d2.err # NoError THEN d2
            ELSE Publish([d2 EXCEPT !.msg = "Sell order placed and matching attempted"],
                         "orderPlaced")

\* quantity has passed Number.isInteger, so quantity.times (line 141) is not
\* a function: no valid buy gets further
ctl_buyStock(db, userId, stockSymbol, quantity, price, stockType) ==
  LET e == ctl_validateInput(userId, stockSymbol, quantity, price, stockType)
  IN  IF e # NoError THEN Throw(db, e)
      ELSE IF ~ ctl_checkStockSymbolExists(db, stockSymbol)
      THEN Throw(db, "Stock symbol not found")
      ELSE Throw(db, TypeError)

ctl_onrampINRPublishFirst(db, userId, amount) ==
  IF userId = "" \/ amount = 0 \/ amount <= 0 THEN Throw(db, "Invalid input")
  ELSE IF userId \notin DOMAIN db.users THEN Throw(db, "User not found")
  ELSE [Publish(db, "balanceUpdated") EXCEPT
          !.users[userId].balance = @ + amount, !.msg = "Onramped"]

ctl_onrampINR(db, userId, amount) ==
  IF userId = "" \/ amount = 0 \/ amount <= 0 THEN Throw(db, "Invalid input")
  ELSE IF userId \notin DOMAIN db.users THEN Throw(db, "User not found")
  ELSE Publish([db EXCEPT !.users[userId].balance = @ + amount, !.msg = "Onramped"],
               "balanceUpdated")

\* uuid.v4() is the userId; the record is written with balance and locked "0"
ctl_createUser(db, userId) ==
  Publish([db EXCEPT !.users = Put(@, userId, [balance |-> 0, locked |-> 0]),
                     !.msg = "User created"],
          "userCreated")

ctl_createSymbol(db, symbolName) ==
  IF symbolName = "" THEN Throw(db, "Symbol name is required")
  ELSE IF symbolName \in DOMAIN db.orderbook THEN Throw(db, "Symbol already exists")
  ELSE Publish([db EXCEPT !.orderbook = Put(@, symbolName, [yes |-> Empty, no |-> Empty]),
                          !.msg = "Symbol created"],
               "symbolCreated")

\* the error checkSufficientBalance throws, NoError when it throws none
ctl_checkSufficientBalance(db, userId, amount) ==
  IF userId \notin DOMAIN db.users THEN "User not found"
  ELSE IF db.users[userId].balance < amount THEN "Insufficient INR balance"
  ELSE NoError

\* Decimal arithmetic on the total and on the user's entry
ctl_updateOrderbookAfterCancel(db, stockSymbol, stockType, price, quantity, userId) ==
  LET level  == db.orderbook[stockSymbol][stockType][price]
      total  == ParseInt(level.total) - quantity
      mine   == ParseInt(GetQ(level.orders, userId)) - quantity
      orders == IF mine = 0 THEN DelKey(level.orders, userId)
                ELSE SetQ(level.orders, userId, Str(mine))
  IN  [db EXCEPT !.orderbook[stockSymbol][stockType] =
         IF total = 0 THEN Drop(@, price)
         ELSE [@ EXCEPT ![price] = [total |-> Str(total), orders |-> orders]]]

\* a yes order gives back cash, any other the locked tokens; a copy that is
\* null where it is changed is a TypeError
ctl_updateBalancesAfterCancel(db, userId, stockSymbol, stockType, price, quantity) ==
  IF stockType = "yes"
  THEN IF userId \notin DOMAIN db.users THEN Throw(db, TypeError)
       ELSE [db EXCEPT !.users[userId].locked  = @ - quantity * price,
                       !.users[userId].balance = @ + quantity * price]
  ELSE IF \/ userId \notin DOMAIN db.stockBalances
          \/ stockSymbol \notin DOMAIN db.stockBalances[userId]
       THEN Throw(db, TypeError)
       ELSE [db EXCEPT
               !.stockBalances[userId][stockSymbol][stockType].locked =
                  Str(ParseInt(@) - quantity),
               !.stockBalances[userId][stockSymbol][stockType].quantity =
                  Str(ParseInt(@) + quantity)]

ctl_cancelOrder(db, userId, stockSymbol, quantity, price, stockType) ==
  LET e == ctl_validateInput(userId, stockSymbol, quantity, price, stockType)
  IN  IF e # NoError THEN Throw(db, e)
      ELSE IF \/ stockSymbol \notin DOMAIN db.orderbook
              \/ price \notin DOMAIN db.orderbook[stockSymbol][stockType]
      THEN Throw(db, "Order not found")
      ELSE IF ~ HasKey(db.orderbook[stockSymbol][stockType][price].orders, userId)
      THEN Throw(db, "Order not found")
      ELSE
        LET cancelQuantity ==
              Min2(quantity,
                   ParseInt(GetQ(db.orderbook[stockSymbol][stockType][price].orders,
                                 userId)))
            d1 == ctl_updateOrderbookAfterCancel(db, stockSymbol, stockType, price,
                                                 cancelQuantity, userId)
            d2 == ctl_updateBalancesAfterCancel(d1, userId, stockSymbol, stockType,
                                                price, cancelQuantity)
        IN  IF d2.err # NoError THEN d2
            ELSE Publish([d2 EXCEPT !.msg = "order canceled"], "orderCanceled")

\* the error validateMintTokensInput throws, NoError when it throws none
ctl_validateMintTokensInput(userId, stockSymbol, quantity, price) ==
  IF userId = "" \/ stockSymbol = "" \/ quantity = 0 \/ price = 0
  THEN "Missing required parameters for minting tokens"
  ELSE IF quantity <= 0 THEN "Quantity must be a positive integer"
  ELSE IF ~ isValidPrice(price) THEN "Price must be between 1 and 10"
  ELSE NoError

\* stockBalances is the user's own map of positions: the helper adds to it
\* an entry under the user's id, never one under the symbol
ctl_ensureStockBalanceExists(stockBalances, userId, stockSymbol) ==
  LET own == IF userId \in DOMAIN stockBalances THEN stockBalances[userId] ELSE Empty
  IN  Put(stockBalances, userId,
          IF stockSymbol \in DOMAIN own THEN own
          ELSE Put(own, stockSymbol, ctl_Position(0, 0, 0, 0)))

\* the cash is written first; then the positions: a TypeError where the user
\* has none in the symbol; quantity is a Decimal, so the sums are strings
ctl_updateBalancesAfterMinting(db, userId, stockSymbol, quantity, totalCost) ==
  LET d1 == [db EXCEPT !.users[userId].balance = @ - totalCost]
      stockBalances ==
        ctl_ensureStockBalanceExists(
          IF userId \in DOMAIN d1.stockBalances THEN d1.stockBalances[userId]
          ELSE Empty, userId, stockSymbol)
  IN  IF stockSymbol \notin DOMAIN stockBalances THEN Throw(d1, TypeError)
      ELSE [d1 EXCEPT !.stockBalances =
              Put(@, userId,
                  [stockBalances EXCEPT
                     ![stockSymbol].yes.quantity =
                        PlusDecimal(Str(ParseInt(@)), Str(quantity)),
                     ![stockSymbol].no.quantity =
                        PlusDecimal(Str(ParseInt(@)), Str(quantity))])]

ctl_mintTokens(db, userId, stockSymbol, quantity, price) ==
  LET e == ctl_validateMintTokensInput(userId, stockSymbol, quantity, price)
  IN  IF e # NoError THEN Throw(db, e)
      ELSE
        LET e2 == ctl_checkSufficientBalance(db, userId, quantity * price)
        IN  IF e2 # NoError THEN Throw(db, e2)
            ELSE
              LET d1 == ctl_updateBalancesAfterMinting(db, userId, stockSymbol,
                                                       quantity, quantity * price)
              IN  IF d1.err # NoError THEN d1
                  ELSE Publish([d1 EXCEPT !.msg = "Minted"], "tokensMinted")

CtlCurrent == CtlStore(redis)

CtlServe(req, r) ==
  /\ requests' = requests + 1
  /\ redis' = [users |-> r.users, orderbook |-> r.orderbook,
               stockBalances |-> r.stockBalances]
  /\ sweep' = r.sweep
  /\ last' = Response(req, r)
  /\ updates' = r.events
  /\ UNCHANGED <<INR_BALANCES, ORDERBOOK, STOCK_BALANCES, origin, sellPlaced, buyPlaced,
                 tasks>>

CtlOpen == requests < MaxCtlRequests

CtlReset == CtlOpen /\ CtlServe(ResetRequest, ctl_resetData(CtlCurrent))

CtlOnramp ==
  /\ CtlOpen
  /\ \E userId \in CtlUsers, amount \in CtlAmounts :
       CtlServe(Request("onramp", userId, "", "", 0, amount),
                ctl_onrampINR(CtlCurrent, userId, amount))

CtlBuy ==
  /\ CtlOpen
  /\ \E userId \in CtlUsers, stockSymbol \in ReqSymbols, quantity \in ReqQuantity,
        price \in CtlPrices, stockType \in CtlTypes :
       CtlServe(Request("buy", userId, stockSymbol, stockType, price, quantity),
                ctl_buyStock(CtlCurrent, userId, stockSymbol, quantity, price, stockType))

CtlSell ==
  /\ CtlOpen
  /\ \E userId \in CtlUsers, stockSymbol \in ReqSymbols, quantity \in ReqQuantity,
        price \in CtlPrices, stockType \in CtlTypes :
       CtlServe(Request("sell", userId, stockSymbol, stockType, price, quantity),
                ctl_placeSellOrder(CtlCurrent, userId, stockSymbol, quantity, price,
                                   stockType))

\* the ids uuid.v4() gives to new users
CtlNewUsers == {"uuid1", "uuid2"}

CtlUser ==
  /\ CtlOpen
  /\ \E userId \in CtlNewUsers \ DOMAIN redis.users :
       CtlServe(Request("createUser", userId, "", "", 0, 0),
                ctl_createUser(CtlCurrent, userId))

CtlSymbol ==
  /\ CtlOpen
  /\ \E symbolName \in {"", BTC, "ETH_USDT"} :
       CtlServe(Request("createSymbol", "", symbolName, "", 0, 0),
                ctl_createSymbol(CtlCurrent, symbolName))

CtlCancel ==
  /\ CtlOpen
  /\ \E userId \in CtlUsers, stockSymbol \in ReqSymbols, quantity \in ReqQuantity,
        price \in CtlPrices \cup {850}, stockType \in CtlTypes :
       CtlServe(Request("cancel", userId, stockSymbol, stockType, price, quantity),
                ctl_cancelOrder(CtlCurrent, userId, stockSymbol, quantity, price,
                                stockType))

CtlMint ==
  /\ CtlOpen
  /\ \E userId \in CtlUsers, stockSymbol \in ReqSymbols \cup {"ETH_USDT"},
        quantity \in ReqQuantity, price \in CtlPrices :
       CtlServe(Request("mint", userId, stockSymbol, "", price, quantity),
                ctl_mintTokens(CtlCurrent, userId, stockSymbol, quantity, price))

CtlNext ==
  \/ CtlReset \/ CtlUser \/ CtlSymbol \/ CtlOnramp \/ CtlBuy \/ CtlSell
  \/ CtlCancel \/ CtlMint

\* index.js calls initialiseDummyData() before it serves requests
CtlInit ==
  /\ INR_BALANCES = Empty /\ ORDERBOOK = Empty /\ STOCK_BALANCES = Empty
  /\ last = [req |-> Request("start", "", "", "", 0, 0), ok |-> TRUE,
             message |-> "", trades |-> <<>>]
  /\ origin = "seed"
  /\ sellPlaced = {} /\ buyPlaced = {}
  /\ requests = 0
  /\ LET r == ctl_initialiseDummyData(CtlStore(NoRedis))
     IN  redis = [users |-> r.users, orderbook |-> r.orderbook,
                  stockBalances |-> r.stockBalances]
  /\ sweep = <<>>
  /\ tasks = <<>>
  /\ updates = <<>>

CtlSpec == CtlInit /\ [][CtlNext]_vars

(* C12: the controller's book-sweep executes a match between the head YES  *)
(* level and the head NO level exactly when py >= pn, and stops as soon as *)
(* py < pn: each head pair it looked at was matched if and only if         *)
(* py >= pn, and a pair with py < pn is the last one it looked at.         *)
C12_SweepMatchesByPrice ==
  \A i \in 1..Len(sweep) :
    /\ sweep[i].traded <=> sweep[i].yesPrice >= sweep[i].noPrice
    /\ sweep[i].yesPrice < sweep[i].noPrice => i = Len(sweep)

(* C21: no buy or sell request creates a price level, or adds quantity to  *)
(* one, whose price is outside [1, 10]: the levels of the seed aside, which *)
(* stay as seeded, every level's price is in [1, 10], and a buy or sell at  *)
(* a price outside the range is rejected as invalid input and changes       *)
(* nothing.                                                                 *)
C21_PricesInRange ==
  /\ \A k \in Levels(ORDERBOOK) :
       \/ k[3] >= 100 /\ k[3] <= 1000
       \/ k \in SeedLevels /\ LevelAt(ORDERBOOK, k) = LevelAt(SeedBook, k)
  /\ \A u \in ReqUsers, s \in ReqSymbols, S \in ReqTypes, p \in ReqPrices,
        q \in ReqQuantity :
       (p < 100 \/ p > 1000) =>
         LET b == buyStock(Current, u, s, q, p, S)
             a == placeSellOrder(Current, u, s, q, p, S)
         IN  /\ b.err = InvalidInput /\ a.err = InvalidInput
             /\ b.book = ORDERBOOK /\ a.book = ORDERBOOK
             /\ b.inr = INR_BALANCES /\ a.inr = INR_BALANCES
             /\ b.stock = STOCK_BALANCES /\ a.stock = STOCK_BALANCES

\* a buy or a sell has just been rejected as invalid input (of the requests
\* served only those at price 10.5 are)
C21_PriceRejected ==
  /\ last.req.op \in {"buy", "sell"} /\ ~ last.ok
  /\ last.message = InvalidInput
  /\ \E p \in ReqPrices : p > 1000

\* the symbols in which some user holds a position record
HeldSymbols(stock) == UNION {DOMAIN stock[u] : u \in DOMAIN stock}

(* C22: a symbol has a book entry only if createSymbol or the seed made    *)
(* it: no buy, sell, cancel or mint request creates a book entry, and      *)
(* every symbol in which some user holds a position has a book entry.      *)
C22_SymbolsCreatedExplicitly ==
  [][Served({"buy", "sell", "cancel", "mint"}) =>
       /\ DOMAIN ORDERBOOK' \subseteq DOMAIN ORDERBOOK
       /\ HeldSymbols(STOCK_BALANCES') \subseteq DOMAIN ORDERBOOK']_vars

---------------------------------------------------------------------------
(* Concurrent requests of the controller.  A handler is an async function: *)
(* it runs without interruption from one await of a redisService call to   *)
(* the next, and the handlers of other requests run in between.  All calls *)
(* go through one Redis connection, which executes them in the order they  *)
(* are sent, so a step of a task is: take the reply of the call it waited  *)
(* for, run to the next call, and have Redis execute that call.            *)

MaxTasks == 3

TaskIds == 1..MaxTasks

IdleTask ==
  [req |-> Request("", "", "", "", 0, 0), pc |-> "idle", status |-> 0, local |-> <<>>]

\* the task has answered with status and its handler has returned
Answered(task, status) == [task EXCEPT !.pc = "done", !.status = status]

TasksInit ==
  /\ INR_BALANCES = Empty /\ ORDERBOOK = Empty /\ STOCK_BALANCES = Empty
  /\ last = [req |-> Request("start", "", "", "", 0, 0), ok |-> TRUE,
             message |-> "", trades |-> <<>>]
  /\ origin = "seed"
  /\ sellPlaced = {} /\ buyPlaced = {}
  /\ requests = 0
  /\ LET r == ctl_initialiseDummyData(CtlStore(NoRedis))
     IN  redis = [users |-> r.users, orderbook |-> r.orderbook,
                  stockBalances |-> r.stockBalances]
  /\ sweep = <<>>
  /\ tasks = [i \in TaskIds |-> IdleTask]
  /\ updates = <<>>

\* what a step of a task leaves alone
TaskFrame ==
  UNCHANGED <<INR_BALANCES, ORDERBOOK, STOCK_BALANCES, last, origin, sellPlaced,
              buyPlaced, requests, sweep, updates>>

NewSymbols == {"ETH_USDT", "SOL_USDT"}

SymbolNames == {"", BTC} \cup NewSymbols

\* createSymbol up to its first await: the 400 for a missing name, else the
\* hget of the book; the 409 follows from the reply alone
CreateSymbolCall(i) ==
  /\ tasks[i].pc = "idle"
  /\ \E symbolName \in SymbolNames :
       LET task == [IdleTask EXCEPT !.req = Request("createSymbol", "", symbolName, "", 0, 0)]
       IN  tasks' = [tasks EXCEPT ![i] =
                       IF symbolName = "" THEN Answered(task, 400)
                       ELSE IF symbolName \in DOMAIN redis.orderbook
                       THEN Answered(task, 409)
                       ELSE [task EXCEPT !.pc = "hset"]]
  /\ UNCHANGED redis
  /\ TaskFrame

\* the hget found no book: hset of an empty one, then the 201
CreateSymbolHset(i) ==
  /\ tasks[i].pc = "hset" /\ tasks[i].req.op = "createSymbol"
  /\ redis' = [redis EXCEPT !.orderbook =
                 Put(@, tasks[i].req.stockSymbol, [yes |-> Empty, no |-> Empty])]
  /\ tasks' = [tasks EXCEPT ![i] = Answered(@, 201)]
  /\ TaskFrame

CreateSymbolCalls == \E i \in TaskIds : CreateSymbolCall(i)

CreateSymbolHsets == \E i \in TaskIds : CreateSymbolHset(i)

CreateSymbolNext == CreateSymbolCalls \/ CreateSymbolHsets

CreateSymbolSpec == TasksInit /\ [][CreateSymbolNext]_vars

\* the tasks that answer in this step
AnsweredNow == {i \in TaskIds : tasks[i].status = 0 /\ tasks'[i].status # 0}

(* C23: under every interleaving of createSymbol requests, a book that     *)
(* exists is not changed and not removed, a createSymbol for a name that   *)
(* has a book answers 409, and at most one of the requests for the same    *)
(* name answers 201.                                                       *)
C23_CreateSymbolOnce ==
  [][/\ \A s \in DOMAIN redis.orderbook :
          s \in DOMAIN redis'.orderbook /\ redis'.orderbook[s] = redis.orderbook[s]
     /\ \A i \in AnsweredNow :
          tasks'[i].req.stockSymbol \in DOMAIN redis.orderbook => tasks'[i].status = 409
     /\ \A s \in SymbolNames :
          Cardinality({i \in TaskIds : /\ tasks'[i].req.stockSymbol = s
                                       /\ tasks'[i].status = 201}) <= 1]_vars

(* C24: after resetData the state is the seed fixture whatever it was      *)
(* before: the users are user1, user2, user3 with the seeded cash, the     *)
(* only symbol is the seeded one with its seeded levels, and no other      *)
(* user, symbol, order or position is left.                                *)
C24_ResetReinstatesSeed ==
  [][Served({"reset"}) =>
       /\ INR_BALANCES' = SeedINR
       /\ ORDERBOOK' = SeedBook
       /\ DOMAIN STOCK_BALANCES' \subseteq DOMAIN SeedINR
       /\ HeldSymbols(STOCK_BALANCES') \subseteq {BTC}]_vars

---------------------------------------------------------------------------
(* The read routes of the in-memory engine, served among the other routes. *)

\* GET /balances/inr/:userId and GET /balances/inr
getINRBalance(db, userId) ==
  IF userId # "" THEN [initialiseUserBalances(db, userId) EXCEPT !.msg = "balance"]
  ELSE [db EXCEPT !.msg = "balances"]

getStockBalance(db, userId) ==
  IF userId # "" THEN [initialiseUserBalances(db, userId) EXCEPT !.msg = "stock balance"]
  ELSE [db EXCEPT !.msg = "stock balances"]

viewOrderbook(db) == [db EXCEPT !.msg = "orderbook"]

ReadUsers == ReqUsers \cup {""}

GetINRBalance ==
  /\ Open
  /\ \E userId \in ReadUsers :
       Serve(Request("getINRBalance", userId, "", "", 0, 0), getINRBalance(Current, userId))

GetStockBalance ==
  /\ Open
  /\ \E userId \in ReadUsers :
       Serve(Request("getStockBalance", userId, "", "", 0, 0),
             getStockBalance(Current, userId))

ViewOrderbook ==
  Open /\ Serve(Request("viewOrderbook", "", "", "", 0, 0), viewOrderbook(Current))

ReadNext == Next \/ GetINRBalance \/ GetStockBalance \/ ViewOrderbook

ReadSpec == Init /\ [][ReadNext]_vars

(* C25: the read routes (cash of a user, inventory of a user, the book)    *)
(* never change the state; the cash query for a user id that does not      *)
(* exist reports an error and does not create the user.                    *)
C25_ReadsChangeNothing ==
  [][Served({"getINRBalance", "getStockBalance", "viewOrderbook"}) =>
       /\ INR_BALANCES' = INR_BALANCES
       /\ STOCK_BALANCES' = STOCK_BALANCES
       /\ ORDERBOOK' = ORDERBOOK
       /\ (/\ last'.req.op = "getINRBalance" /\ last'.req.userId # ""
           /\ last'.req.userId \notin DOMAIN INR_BALANCES) => ~ last'.ok]_vars

\* ---------------------------------------------------------------------
\* onrampINR of the controller, one step per awaited Redis call

OnrampAmounts == {0, 5000, 7000}

\* onrampINR up to its first await: the 400 of the validation, else the hget
\* of the user's record; the 404 follows from the reply alone, and otherwise
\* the handler keeps the record it read
OnrampCall(i) ==
  /\ tasks[i].pc = "idle"
  /\ \E userId \in CtlUsers \cup {""}, amount \in OnrampAmounts :
       LET task == [IdleTask EXCEPT !.req = Request("onramp", userId, "", "", 0, amount)]
       IN  tasks' = [tasks EXCEPT ![i] =
                       IF userId = "" \/ amount <= 0 THEN Answered(task, 400)
                       ELSE IF userId \notin DOMAIN redis.users
                       THEN Answered(task, 404)
                       ELSE [task EXCEPT !.pc = "hset",
                                         !.local = << redis.users[userId] >>]]
  /\ UNCHANGED redis
  /\ TaskFrame

\* the record that was read, with the amount added to its balance, is written
\* back whole; then the 200
OnrampHset(i) ==
  /\ tasks[i].pc = "hset" /\ tasks[i].req.op = "onramp"
  /\ LET userBalance == tasks[i].local[1]
     IN  redis' = [redis EXCEPT !.users[tasks[i].req.userId] =
                     [userBalance EXCEPT !.balance = @ + tasks[i].req.quantity]]
  /\ tasks' = [tasks EXCEPT ![i] = Answered(@, 200)]
  /\ TaskFrame

OnrampCalls == \E i \in TaskIds : OnrampCall(i)

OnrampHsets == \E i \in TaskIds : OnrampHset(i)

OnrampNext == OnrampCalls \/ OnrampHsets

OnrampSpec == TasksInit /\ [][OnrampNext]_vars

RECURSIVE Onramped(_, _)
\* the amounts of the onramp requests of ids for userId that answered 200
Onramped(ids, userId) ==
  IF ids = {} THEN 0
  ELSE LET i == CHOOSE j \in ids : TRUE
       IN  (IF tasks[i].req.userId = userId /\ tasks[i].status = 200
            THEN tasks[i].req.quantity ELSE 0)
           + Onramped(ids \ {i}, userId)

AllAnswered == \A i \in TaskIds : tasks[i].pc = "done"

(* C26: when onramp requests have run concurrently and all have answered,  *)
(* the balance of every user is the initial balance plus the amounts of    *)
(* the requests for that user which succeeded, and locked is unchanged.    *)
C26_OnrampsAddUp ==
  AllAnswered =>
    \A userId \in DOMAIN ctl_SeedUsers :
      /\ redis.users[userId].balance
           = ctl_SeedUsers[userId].balance + Onramped(TaskIds, userId)
      /\ redis.users[userId].locked = ctl_SeedUsers[userId].locked

\* ---------------------------------------------------------------------
\* placeSellOrder of the controller and the read routes, one step per
\* awaited Redis call

\* the reply of hget: the value in a one-element sequence, <<>> for null
Hget(hash, field) == IF field \in DOMAIN hash THEN << hash[field] >> ELSE <<>>

\* the variables a handler holds across its awaits
Keep(local, name, value) == (name :> value) @@ local

SettlePrices == {100, 800, 1050}

\* how many sell requests are in flight together
MaxSells == 1

\* the user ids of the read requests: none (every user) or one
SettleReaders == {"", "user1"}

\* placeSellOrder up to its first await: validateInput, then the hget of
\* checkSufficientStockBalance
SellCall(i) ==
  /\ tasks[i].pc = "idle"
  /\ Cardinality({j \in TaskIds : tasks[j].req.op = "sell"}) < MaxSells
  /\ \E userId \in CtlUsers, stockType \in ReqTypes, price \in SettlePrices :
       LET task == [IdleTask EXCEPT
                      !.req = Request("sell", userId, BTC, stockType, price, 1)]
       IN  tasks' = [tasks EXCEPT ![i] =
                       IF ctl_validateInput(userId, BTC, 1, price, stockType) # NoError
                       THEN Answered(task, 400)
                       ELSE [task EXCEPT
                               !.pc = "check",
                               !.local = Keep(<<>>, "stockBalances",
                                              Hget(redis.stockBalances, userId))]]
  /\ UNCHANGED redis
  /\ TaskFrame

\* the check on the reply, then the hget of updateOrderbook
SellBookHget(i) ==
  /\ tasks[i].pc = "check"
  /\ LET req == tasks[i].req
         stockBalances == tasks[i].local.stockBalances
     IN  tasks' = [tasks EXCEPT ![i] =
           IF \/ stockBalances = <<>>
              \/ req.stockSymbol \notin DOMAIN stockBalances[1]
              \/ ParseInt(stockBalances[1][req.stockSymbol][req.stockType].quantity)
                   < req.quantity
           THEN Answered(@, 400)
           ELSE [@ EXCEPT !.pc = "book",
                          !.local = Keep(@, "orderbook",
                                         Hget(redis.orderbook, req.stockSymbol))]]
  /\ UNCHANGED redis
  /\ TaskFrame

\* updateOrderbook on the copy it read, and its hset
SellBookHset(i) ==
  /\ tasks[i].pc = "book"
  /\ LET req  == tasks[i].req
         copy == tasks[i].local.orderbook
         db   == CtlStore([users |-> Empty, stockBalances |-> Empty,
                           orderbook |-> IF copy = <<>> THEN Empty
                                         ELSE (req.stockSymbol :> copy[1])])
         d1   == ctl_updateOrderbook(db, req.stockSymbol, req.stockType, req.price,
                                     Str(req.quantity), req.userId)
     IN  redis' = [redis EXCEPT !.orderbook =
                     Put(@, req.stockSymbol, d1.orderbook[req.stockSymbol])]
  /\ tasks' = [tasks EXCEPT ![i].pc = "placed"]
  /\ TaskFrame

\* placePendingSellOrder: the hget of the seller's positions
SellStockHget(i) ==
  /\ tasks[i].pc = "placed"
  /\ tasks' = [tasks EXCEPT ![i] =
                 [@ EXCEPT !.pc = "stock",
                           !.local = Keep(@, "stockBalances",
                                          Hget(redis.stockBalances, tasks[i].req.userId))]]
  /\ UNCHANGED redis
  /\ TaskFrame

\* the quantity moves from free to locked on the copy, and its hset
SellStockHset(i) ==
  /\ tasks[i].pc = "stock"
  /\ LET req  == tasks[i].req
         copy == tasks[i].local.stockBalances
     IN  IF copy = <<>> \/ req.stockSymbol \notin DOMAIN copy[1]
         THEN /\ tasks' = [tasks EXCEPT ![i] = Answered(@, 400)]
              /\ UNCHANGED redis
         ELSE /\ redis' = [redis EXCEPT !.stockBalances =
                   Put(@, req.userId,
                       [copy[1] EXCEPT
                          ![req.stockSymbol][req.stockType].quantity =
                             Str(ParseInt(@) - req.quantity),
                          ![req.stockSymbol][req.stockType].locked =
                             PlusDecimal(Str(ParseInt(@)), Str(req.quantity))])]
              /\ tasks' = [tasks EXCEPT ![i].pc = "locked"]
  /\ TaskFrame

\* matchOrders: the hget of the book
SellMatchHget(i) ==
  /\ tasks[i].pc = "locked"
  /\ tasks' = [tasks EXCEPT ![i] =
                 [@ EXCEPT !.pc = "match",
                           !.local = Keep(@, "orderbook",
                                          Hget(redis.orderbook, tasks[i].req.stockSymbol))]]
  /\ UNCHANGED redis
  /\ TaskFrame

\* The while-loop of matchOrders on the copy, up to the first pair of levels
\* for which executeTrade reaches its await (z.trade), or to its end.
\* z is [orderbook, yesPrices, noPrices, trade].
RECURSIVE ctl_matchUntilTrade(_)
ctl_matchUntilTrade(z) ==
  IF z.yesPrices = <<>> \/ z.noPrices = <<>> THEN z
  ELSE
    LET yesPrice == Head(z.yesPrices)
        noPrice  == Head(z.noPrices)
    IN  IF yesPrice + noPrice = 1050
        THEN
          LET yesOrder == z.orderbook.yes[yesPrice]
              noOrder  == z.orderbook.no[noPrice]
              matchQuantity == Min2(ParseInt(yesOrder.total), ParseInt(noOrder.total))
              yesTotal == ParseInt(yesOrder.total) - matchQuantity
              noTotal  == ParseInt(noOrder.total) - matchQuantity
              yes2 == IF yesTotal = 0 THEN Drop(z.orderbook.yes, yesPrice)
                      ELSE [z.orderbook.yes EXCEPT ![yesPrice].total = Str(yesTotal)]
              no2  == IF noTotal = 0 THEN Drop(z.orderbook.no, noPrice)
                      ELSE [z.orderbook.no EXCEPT ![noPrice].total = Str(noTotal)]
          IN  IF yesOrder.orders # <<>> /\ noOrder.orders # <<>>
              THEN [z EXCEPT !.trade = TRUE]
              ELSE ctl_matchUntilTrade(
                     [z EXCEPT
                        !.orderbook = [yes |-> yes2, no |-> no2],
                        !.yesPrices = IF yesTotal = 0 THEN Tail(@) ELSE @,
                        !.noPrices  = IF noTotal = 0 THEN Tail(@) ELSE @])
        ELSE IF yesPrice + noPrice > 1050
        THEN ctl_matchUntilTrade([z EXCEPT !.noPrices = Tail(@)])
        ELSE ctl_matchUntilTrade([z EXCEPT !.yesPrices = Tail(@)])

\* matchOrders after the reply: no book, nothing to do; no pair of levels to
\* trade, the hset of the copy and the 200; else the first hget of
\* updateBalancesAfterTrade for the first entries of the two levels
SellMatch(i) ==
  /\ tasks[i].pc = "match"
  /\ LET req  == tasks[i].req
         copy == tasks[i].local.orderbook
     IN  IF copy = <<>>
         THEN /\ tasks' = [tasks EXCEPT ![i] = Answered(@, 200)]
              /\ UNCHANGED redis
         ELSE
           LET z == ctl_matchUntilTrade(
                      [orderbook |-> copy[1],
                       yesPrices |-> SortDesc(ValidPrices(copy[1].yes)),
                       noPrices  |-> SortAsc(ValidPrices(copy[1].no)),
                       trade |-> FALSE])
           IN  IF ~ z.trade
               THEN /\ redis' = [redis EXCEPT !.orderbook =
                                   Put(@, req.stockSymbol, z.orderbook)]
                    /\ tasks' = [tasks EXCEPT ![i] = Answered(@, 200)]
               ELSE
                 LET yesPrice == Head(z.yesPrices)
                     noPrice  == Head(z.noPrices)
                     yesOrder == z.orderbook.yes[yesPrice]
                     noOrder  == z.orderbook.no[noPrice]
                     matchQuantity == Min2(ParseInt(yesOrder.total),
                                           ParseInt(noOrder.total))
                     trade == [yesUserId |-> yesOrder.orders[1].id,
                               noUserId  |-> noOrder.orders[1].id,
                               price     |-> yesPrice,
                               quantity  |-> Min3(ParseInt(yesOrder.orders[1].q),
                                                  ParseInt(noOrder.orders[1].q),
                                                  matchQuantity)]
                 IN  /\ tasks' = [tasks EXCEPT ![i] =
                           [@ EXCEPT
                              !.pc = "yesUser",
                              !.local = Keep(Keep(@, "trade", trade), "yesUserBalance",
                                             Hget(redis.users, trade.yesUserId))]]
                     /\ UNCHANGED redis
  /\ TaskFrame

\* updateBalancesAfterTrade: its second, third and fourth hget
SellTradeHgetNoUser(i) ==
  /\ tasks[i].pc = "yesUser"
  /\ tasks' = [tasks EXCEPT ![i] =
                 [@ EXCEPT !.pc = "noUser",
                           !.local = Keep(@, "noUserBalance",
                                          Hget(redis.users, tasks[i].local.trade.noUserId))]]
  /\ UNCHANGED redis
  /\ TaskFrame

SellTradeHgetYesStock(i) ==
  /\ tasks[i].pc = "noUser"
  /\ tasks' = [tasks EXCEPT ![i] =
                 [@ EXCEPT !.pc = "yesStock",
                           !.local = Keep(@, "yesStockBalances",
                                          Hget(redis.stockBalances,
                                               tasks[i].local.trade.yesUserId))]]
  /\ UNCHANGED redis
  /\ TaskFrame

SellTradeHgetNoStock(i) ==
  /\ tasks[i].pc = "yesStock"
  /\ tasks' = [tasks EXCEPT ![i] =
                 [@ EXCEPT !.pc = "noStock",
                           !.local = Keep(@, "noStockBalances",
                                          Hget(redis.stockBalances,
                                               tasks[i].local.trade.noUserId))]]
  /\ UNCHANGED redis
  /\ TaskFrame

\* the changes on the four copies (a TypeError on a copy that is null or has
\* no position in the symbol), then the first hset: the yes user's cash
SellTradeHsetYesUser(i) ==
  /\ tasks[i].pc = "noStock"
  /\ LET local == tasks[i].local
         trade == local.trade
         stockSymbol == tasks[i].req.stockSymbol
     IN  IF \/ local.yesUserBalance = <<>> \/ local.noUserBalance = <<>>
            \/ local.yesStockBalances = <<>> \/ local.noStockBalances = <<>>
         THEN /\ tasks' = [tasks EXCEPT ![i] = Answered(@, 400)]
              /\ UNCHANGED redis
         ELSE IF \/ stockSymbol \notin DOMAIN local.yesStockBalances[1]
                 \/ stockSymbol \notin DOMAIN local.noStockBalances[1]
         THEN /\ tasks' = [tasks EXCEPT ![i] = Answered(@, 400)]
              /\ UNCHANGED redis
         ELSE
           LET yesUserBalance == [local.yesUserBalance[1] EXCEPT
                                    !.locked = @ - trade.quantity * trade.price]
               noUserBalance  == [local.noUserBalance[1] EXCEPT
                                    !.balance = @ + trade.quantity * trade.price]
               yesStockBalances ==
                 [local.yesStockBalances[1] EXCEPT
                    ![stockSymbol].yes.quantity = Str(ParseInt(@) + trade.quantity),
                    ![stockSymbol].yes.locked   = Str(ParseInt(@) - trade.quantity)]
               noStockBalances ==
                 [local.noStockBalances[1] EXCEPT
                    ![stockSymbol].no.quantity = Str(ParseInt(@) - trade.quantity),
                    ![stockSymbol].no.locked   = Str(ParseInt(@) - trade.quantity)]
           IN  /\ redis' = [redis EXCEPT !.users = Put(@, trade.yesUserId, yesUserBalance)]
               /\ tasks' = [tasks EXCEPT ![i] =
                     [@ EXCEPT
                        !.pc = "yesUserSet",
                        !.local = Keep(Keep(Keep(Keep(@,
                                    "yesUserBalance", yesUserBalance),
                                    "noUserBalance", noUserBalance),
                                    "yesStockBalances", yesStockBalances),
                                    "noStockBalances", noStockBalances)]]
  /\ TaskFrame

\* the second and third hset
SellTradeHsetNoUser(i) ==
  /\ tasks[i].pc = "yesUserSet"
  /\ redis' = [redis EXCEPT !.users =
                 Put(@, tasks[i].local.trade.noUserId, tasks[i].local.noUserBalance)]
  /\ tasks' = [tasks EXCEPT ![i].pc = "noUserSet"]
  /\ TaskFrame

SellTradeHsetYesStock(i) ==
  /\ tasks[i].pc = "noUserSet"
  /\ redis' = [redis EXCEPT !.stockBalances =
                 Put(@, tasks[i].local.trade.yesUserId, tasks[i].local.yesStockBalances)]
  /\ tasks' = [tasks EXCEPT ![i].pc = "yesStockSet"]
  /\ TaskFrame

\* the fourth hset; back in executeTrade quantity.minus is not a function
\* (quantity is a Number) and the handler's catch answers 400
SellTradeHsetNoStock(i) ==
  /\ tasks[i].pc = "yesStockSet"
  /\ redis' = [redis EXCEPT !.stockBalances =
                 Put(@, tasks[i].local.trade.noUserId, tasks[i].local.noStockBalances)]
  /\ tasks' = [tasks EXCEPT ![i] = Answered(@, 400)]
  /\ TaskFrame

\* getINRBalance: hget of one user, or hgetall without a user id
ReadINRBalance(i) ==
  /\ tasks[i].pc = "idle"
  /\ \E userId \in SettleReaders :
       LET task == [IdleTask EXCEPT
                      !.req = Request("getINRBalance", userId, "", "", 0, 0)]
       IN  tasks' = [tasks EXCEPT ![i] =
                       IF userId = ""
                       THEN Answered([task EXCEPT !.local = << redis.users >>], 200)
                       ELSE IF userId \in DOMAIN redis.users
                       THEN Answered([task EXCEPT !.local =
                                        << (userId :> redis.users[userId]) >>], 200)
                       ELSE Answered(task, 404)]
  /\ UNCHANGED redis
  /\ TaskFrame

\* getStockBalance: hgetall, then one user's positions or all
ReadStockBalance(i) ==
  /\ tasks[i].pc = "idle"
  /\ \E userId \in SettleReaders :
       LET task == [IdleTask EXCEPT
                      !.req = Request("getStockBalance", userId, "", "", 0, 0)]
       IN  tasks' = [tasks EXCEPT ![i] =
                       IF userId = ""
                       THEN Answered([task EXCEPT !.local = << redis.stockBalances >>],
                                     200)
                       ELSE Answered([task EXCEPT !.local =
                                        << (userId :>
                                             IF userId \in DOMAIN redis.stockBalances
                                             THEN redis.stockBalances[userId]
                                             ELSE Empty) >>], 200)]
  /\ UNCHANGED redis
  /\ TaskFrame

\* viewOrderbook: hgetall
ReadOrderbook(i) ==
  /\ tasks[i].pc = "idle"
  /\ tasks' = [tasks EXCEPT ![i] =
                 Answered([IdleTask EXCEPT
                             !.req = Request("viewOrderbook", "", "", "", 0, 0),
                             !.local = << redis.orderbook >>], 200)]
  /\ UNCHANGED redis
  /\ TaskFrame

SellCalls == \E i \in TaskIds : SellCall(i)
SellBookHgets == \E i \in TaskIds : SellBookHget(i)
SellBookHsets == \E i \in TaskIds : SellBookHset(i)
SellStockHgets == \E i \in TaskIds : SellStockHget(i)
SellStockHsets == \E i \in TaskIds : SellStockHset(i)
SellMatchHgets == \E i \in TaskIds : SellMatchHget(i)
SellMatches == \E i \in TaskIds : SellMatch(i)
SellTradeHgetNoUsers == \E i \in TaskIds : SellTradeHgetNoUser(i)
SellTradeHgetYesStocks == \E i \in TaskIds : SellTradeHgetYesStock(i)
SellTradeHgetNoStocks == \E i \in TaskIds : SellTradeHgetNoStock(i)
SellTradeHsetYesUsers == \E i \in TaskIds : SellTradeHsetYesUser(i)
SellTradeHsetNoUsers == \E i \in TaskIds : SellTradeHsetNoUser(i)
SellTradeHsetYesStocks == \E i \in TaskIds : SellTradeHsetYesStock(i)
SellTradeHsetNoStocks == \E i \in TaskIds : SellTradeHsetNoStock(i)
ReadINRBalances == \E i \in TaskIds : ReadINRBalance(i)
ReadStockBalances == \E i \in TaskIds : ReadStockBalance(i)
ReadOrderbooks == \E i \in TaskIds : ReadOrderbook(i)

SettleNext ==
  \/ SellCalls \/ SellBookHgets \/ SellBookHsets \/ SellStockHgets \/ SellStockHsets
  \/ SellMatchHgets \/ SellMatches
  \/ SellTradeHgetNoUsers \/ SellTradeHgetYesStocks \/ SellTradeHgetNoStocks
  \/ SellTradeHsetYesUsers \/ SellTradeHsetNoUsers \/ SellTradeHsetYesStocks
  \/ SellTradeHsetNoStocks
  \/ ReadINRBalances \/ ReadStockBalances \/ ReadOrderbooks

SettleSpec == TasksInit /\ [][SettleNext]_vars

\* the read of task i, answered in this step, returns the users hash with
\* the yes user's record as the trade of task j has written it and the no
\* user's record not yet as that trade writes it
PartialCash(i, j) ==
  /\ tasks'[i].req.op = "getINRBalance" /\ tasks'[i].req.userId = ""
  /\ tasks[j].pc = "yesUserSet"
  /\ LET trade == tasks[j].local.trade
         users == tasks'[i].local[1]
     IN  /\ trade.yesUserId # trade.noUserId
         /\ users[trade.yesUserId] = tasks[j].local.yesUserBalance
         /\ users[trade.noUserId] # tasks[j].local.noUserBalance

\* the same for the positions: the yes user has received the tokens that the
\* no user still holds
PartialTokens(i, j) ==
  /\ tasks'[i].req.op = "getStockBalance" /\ tasks'[i].req.userId = ""
  /\ tasks[j].pc = "yesStockSet"
  /\ LET trade == tasks[j].local.trade
         stockBalances == tasks'[i].local[1]
     IN  /\ trade.yesUserId # trade.noUserId
         /\ stockBalances[trade.yesUserId] = tasks[j].local.yesStockBalances
         /\ stockBalances[trade.noUserId] # tasks[j].local.noStockBalances

(* C27: a balance or inventory read that answers while a trade is being    *)
(* settled never returns one party of the trade updated and the other not. *)
C27_NoPartialTrade ==
  [][\A i \in AnsweredNow, j \in TaskIds :
       ~ PartialCash(i, j) /\ ~ PartialTokens(i, j)]_vars

\* the event each route of the controller publishes
EventOf(op) ==
  CASE op = "reset"        -> "dataReset"
    [] op = "createUser"   -> "userCreated"
    [] op = "createSymbol" -> "symbolCreated"
    [] op = "onramp"       -> "balanceUpdated"
    [] op = "buy"          -> "orderPlaced"
    [] op = "sell"         -> "orderPlaced"
    [] op = "cancel"       -> "orderCanceled"
    [] op = "mint"         -> "tokensMinted"
    [] OTHER               -> ""

(* C28: a request of the controller that succeeds publishes the event of   *)
(* its route exactly once, when every write of the request has been made   *)
(* (the hashes at the publish are the hashes the request leaves); a        *)
(* request that fails publishes nothing.                                   *)
C28_PublishOnceAfterWrites ==
  [][requests' = requests + 1 =>
       /\ last'.ok => /\ Len(updates') = 1
                      /\ updates'[1].event = EventOf(last'.req.op)
                      /\ updates'[1].store = redis'
       /\ ~ last'.ok => updates' = <<>>]_vars

\* a mint has succeeded and its one event is on the channel
C28_Published ==
  /\ last.ok /\ last.req.op = "mint"
  /\ Len(updates) = 1 /\ updates[1].event = "tokensMinted"

\* ---------------------------------------------------------------------
\* A session in which buy orders of two users come to rest on both sides
\* before a sell has the book swept: Cross gives the route and the user of
\* each request; quantity, outcome and price are any.

Cross ==
  << [op |-> "createSymbol", userId |-> ""],
     [op |-> "onramp", userId |-> "user1"],
     [op |-> "onramp", userId |-> "user2"],
     [op |-> "buy",    userId |-> "user1"],
     [op |-> "buy",    userId |-> "user2"],
     [op |-> "buy",    userId |-> "user1"],
     [op |-> "buy",    userId |-> "user2"],
     [op |-> "mint",   userId |-> "user1"],
     [op |-> "sell",   userId |-> "user1"] >>

CrossDue(op) == requests < Len(Cross) /\ Cross[requests + 1].op = op

CrossUser == {Cross[requests + 1].userId}

CrossAmounts == {10000}

CrossSymbol == CrossDue("createSymbol") /\ CreateSymbol(ReqSymbols)
CrossOnramp == CrossDue("onramp") /\ OnrampINR(CrossUser, CrossAmounts)
CrossBuy    == CrossDue("buy")
               /\ BuyStock(CrossUser, ReqSymbols, ReqQuantity, SessionPrices, ReqTypes)
CrossMint   == CrossDue("mint")
               /\ MintTokens(CrossUser, ReqSymbols, ReqQuantity, SessionMintPrices)
CrossSell   == CrossDue("sell")
               /\ PlaceSellOrder(CrossUser, ReqSymbols, ReqQuantity, SessionPrices, ReqTypes)

CrossNext == CrossSymbol \/ CrossOnramp \/ CrossBuy \/ CrossMint \/ CrossSell

CrossInit == InitWith(Store(Empty, Empty, Empty), "empty")

CrossSpec == CrossInit /\ [][CrossNext]_vars

(* C29: every pair executeTrade settles has a quantity of at most what the *)
(* buyer's entry and the seller's entry hold at that moment; in particular *)
(* no pair is settled for a participant whose entry has been removed.      *)
C29_TradeWithinRests ==
  \A i \in 1..Len(last.trades) :
    /\ last.trades[i].quantity <= last.trades[i].buyerRests
    /\ last.trades[i].quantity <= last.trades[i].sellerRests

RECURSIVE Delivered(_)
\* the quantity the trades took from makers' entries
Delivered(trades) ==
  IF trades = <<>> THEN 0 ELSE Head(trades).quantity + Delivered(Tail(trades))

RECURSIVE Credited(_)
\* the cash the trades credited to the makers
Credited(trades) ==
  IF trades = <<>> THEN 0
  ELSE Head(trades).quantity * Head(trades).price + Credited(Tail(trades))

(* C30: when a buy of q of outcome S answers 'Buy order fully matched',    *)
(* the makers' entries gave up exactly q, the buyer's free quantity of S   *)
(* rose by exactly q, and the cash taken from the buyer is the cash        *)
(* credited to those makers.                                               *)
C30_FullyMatchedDelivers ==
  [][(Served({"buy"}) /\ last'.ok /\ last'.message = "Buy order fully matched") =>
       LET req == last'.req
           u   == req.userId
           old == PositionOf(STOCK_BALANCES, u, req.stockSymbol)
           new == PositionOf(STOCK_BALANCES', u, req.stockSymbol)
           before == CashOf(INR_BALANCES, u).balance + CashOf(INR_BALANCES, u).locked
           after  == CashOf(INR_BALANCES', u).balance + CashOf(INR_BALANCES', u).locked
       IN  /\ Delivered(last'.trades) = req.quantity
           /\ new[req.stockType].quantity = old[req.stockType].quantity + req.quantity
           /\ \/ \E i \in 1..Len(last'.trades) : last'.trades[i].seller = u
              \/ before - after = Credited(last'.trades)]_vars

\* both engines side by side: the in-memory store and the Redis hashes, each
\* begun by its initialiseDummyData, serving the requests of either
SweepInit ==
  /\ INR_BALANCES = initialiseDummyData.inr
  /\ ORDERBOOK = initialiseDummyData.book
  /\ STOCK_BALANCES = initialiseDummyData.stock
  /\ last = [req |-> Request("start", "", "", "", 0, 0), ok |-> TRUE,
             message |-> "", trades |-> <<>>]
  /\ origin = "seed"
  /\ sellPlaced = {} /\ buyPlaced = {}
  /\ requests = 0
  /\ sweep = <<>>
  /\ tasks = <<>>
  /\ updates = <<>>
  /\ LET r == ctl_initialiseDummyData(CtlStore(NoRedis))
     IN  redis = [users |-> r.users, orderbook |-> r.orderbook,
                  stockBalances |-> r.stockBalances]

MaxSweepRequests == 3

SweepPrices == {100, 250, 800, 1000}

\* POST /order/sell served by the in-memory engine
SweepSell ==
  /\ requests < MaxSweepRequests
  /\ PlaceSellOrder(ReqUsers, ReqSymbols, ReqQuantity, SweepPrices, ReqTypes)

\* POST /order/sell served by the controller
SweepCtlSell ==
  /\ requests < MaxSweepRequests
  /\ \E userId \in ReqUsers, stockSymbol \in ReqSymbols, quantity \in ReqQuantity,
        price \in SweepPrices, stockType \in ReqTypes :
       CtlServe(Request("sell", userId, stockSymbol, stockType, price, quantity),
                ctl_placeSellOrder(CtlCurrent, userId, stockSymbol, quantity, price,
                                   stockType))

SweepNext == SweepSell \/ SweepCtlSell

SweepSpec == SweepInit /\ [][SweepNext]_vars

(* C31: matchOrders terminates, in the in-memory engine and in the        *)
(* controller: every iteration of its while-loop that is followed by      *)
(* another has removed at least one price from the YES or the NO working  *)
(* list, so the iterations are at most the YES levels plus the NO levels  *)
(* the sweep began with.                                                  *)
C31_SweepTerminates ==
  /\ \A i \in 1..(Len(sweep) - 1) : sweep[i + 1].left < sweep[i].left
  /\ sweep # <<>> => Len(sweep) <= sweep[1].left

\* a sweep of several iterations, the first of them a trade
C31_SweptSeveral == Len(sweep) >= 2 /\ sweep[1].traded

\* the symbols a mint request names
MintSymbols == ReqSymbols \cup {"ETH_USDT"}

\* userId has a stored position for stockSymbol in the stockBalances hash
ctl_Holds(stockBalances, userId, stockSymbol) ==
  userId \in DOMAIN stockBalances /\ stockSymbol \in DOMAIN stockBalances[userId]

(* C34: the controller's mint creates the position on demand: whatever the *)
(* stored data, a mint(u, s, q, p) by an existing user with at least q*p   *)
(* of free cash and no stored position for s succeeds and leaves u with    *)
(* free YES = free NO = q in s and the free cash reduced by q*p; and no    *)
(* mint reduces u's cash without raising u's YES and NO tokens of s.       *)
C34_MintCreatesPosition ==
  \A userId \in CtlUsers, stockSymbol \in MintSymbols, quantity \in ReqQuantity,
     price \in CtlPrices :
    LET db == CtlCurrent
        r  == ctl_mintTokens(db, userId, stockSymbol, quantity, price)
        old == IF ctl_Holds(db.stockBalances, userId, stockSymbol)
               THEN db.stockBalances[userId][stockSymbol]
               ELSE ctl_Position(0, 0, 0, 0)
        created ==
          /\ ctl_Holds(r.stockBalances, userId, stockSymbol)
          /\ ParseInt(r.stockBalances[userId][stockSymbol].yes.quantity) = quantity
          /\ ParseInt(r.stockBalances[userId][stockSymbol].no.quantity) = quantity
        credited ==
          /\ ctl_Holds(r.stockBalances, userId, stockSymbol)
          /\ ParseInt(r.stockBalances[userId][stockSymbol].yes.quantity)
               > ParseInt(old.yes.quantity)
          /\ ParseInt(r.stockBalances[userId][stockSymbol].no.quantity)
               > ParseInt(old.no.quantity)
    IN  userId \in DOMAIN db.users =>
          /\ (/\ isValidPrice(price)
              /\ db.users[userId].balance >= quantity * price
              /\ ~ ctl_Holds(db.stockBalances, userId, stockSymbol)) =>
                /\ r.err = NoError
                /\ r.users[userId].balance = db.users[userId].balance - quantity * price
                /\ created
          /\ r.users[userId].balance < db.users[userId].balance => credited

----------------------------------------------------------------------------
(* Concurrent mint requests of the controller, step by step.               *)

MintUsers == {"user1", "user4"}

MintQuantities == {600}

MintPrices == {1000, 1050}

\* mintTokens up to its first Redis call: validateMintTokensInput, totalCost,
\* then the hget of checkSufficientBalance
MintCall(i) ==
  /\ tasks[i].pc = "idle"
  /\ \E userId \in MintUsers, stockSymbol \in MintSymbols, quantity \in MintQuantities,
        price \in MintPrices :
       LET task == [IdleTask EXCEPT
                      !.req = Request("mint", userId, stockSymbol, "", price, quantity)]
       IN  tasks' = [tasks EXCEPT ![i] =
                       IF ctl_validateMintTokensInput(userId, stockSymbol, quantity, price)
                            # NoError
                       THEN Answered(task, 400)
                       ELSE [task EXCEPT
                               !.pc = "check",
                               !.local = Keep(<<>>, "userBalance",
                                              Hget(redis.users, userId))]]
  /\ UNCHANGED redis
  /\ TaskFrame

\* checkSufficientBalance on the reply: User not found, Insufficient INR
\* balance, or on to updateBalancesAfterMinting and its hget of the user
MintCheck(i) ==
  /\ tasks[i].pc = "check" /\ tasks[i].req.op = "mint"
  /\ LET userBalance == tasks[i].local.userBalance
         totalCost   == tasks[i].req.quantity * tasks[i].req.price
     IN  tasks' = [tasks EXCEPT ![i] =
                     IF userBalance = <<>> THEN Answered(@, 400)
                     ELSE IF userBalance[1].balance < totalCost THEN Answered(@, 400)
                     ELSE [@ EXCEPT
                             !.pc = "debit",
                             !.local = Keep(tasks[i].local, "userBalance",
                                            Hget(redis.users, tasks[i].req.userId))]]
  /\ UNCHANGED redis
  /\ TaskFrame

\* the record that was read, with totalCost taken from its balance, is
\* written back whole
MintDebit(i) ==
  /\ tasks[i].pc = "debit"
  /\ LET userBalance == tasks[i].local.userBalance[1]
         totalCost   == tasks[i].req.quantity * tasks[i].req.price
     IN  redis' = [redis EXCEPT !.users =
                     Put(@, tasks[i].req.userId,
                         [userBalance EXCEPT !.balance = @ - totalCost])]
  /\ tasks' = [tasks EXCEPT ![i].pc = "stock"]
  /\ TaskFrame

\* the hget of the user's positions
MintStockHget(i) ==
  /\ tasks[i].pc = "stock" /\ tasks[i].req.op = "mint"
  /\ tasks' = [tasks EXCEPT ![i] =
                 [@ EXCEPT !.pc = "credit",
                           !.local = Keep(tasks[i].local, "stockBalances",
                                          Hget(redis.stockBalances, tasks[i].req.userId))]]
  /\ UNCHANGED redis
  /\ TaskFrame

\* ensureStockBalanceExists and the two sums on the copy: a TypeError and the
\* 400 where the copy has no entry for the symbol, else the hset and the 200
MintCredit(i) ==
  /\ tasks[i].pc = "credit"
  /\ LET userId      == tasks[i].req.userId
         stockSymbol == tasks[i].req.stockSymbol
         quantity    == tasks[i].req.quantity
         stockBalances ==
           ctl_ensureStockBalanceExists(
             IF tasks[i].local.stockBalances = <<>> THEN Empty
             ELSE tasks[i].local.stockBalances[1], userId, stockSymbol)
     IN  IF stockSymbol \notin DOMAIN stockBalances
         THEN /\ tasks' = [tasks EXCEPT ![i] = Answered(@, 400)]
              /\ UNCHANGED redis
         ELSE /\ redis' = [redis EXCEPT !.stockBalances =
                             Put(@, userId,
                                 [stockBalances EXCEPT
                                    ![stockSymbol].yes.quantity =
                                       PlusDecimal(Str(ParseInt(@)), Str(quantity)),
                                    ![stockSymbol].no.quantity =
                                       PlusDecimal(Str(ParseInt(@)), Str(quantity))])]
              /\ tasks' = [tasks EXCEPT ![i] = Answered(@, 200)]
  /\ TaskFrame

MintCalls == \E i \in TaskIds : MintCall(i)

MintChecks == \E i \in TaskIds : MintCheck(i)

MintDebits == \E i \in TaskIds : MintDebit(i)

MintStockHgets == \E i \in TaskIds : MintStockHget(i)

MintCredits == \E i \in TaskIds : MintCredit(i)

MintNext == MintCalls \/ MintChecks \/ MintDebits \/ MintStockHgets \/ MintCredits

MintSpec == TasksInit /\ [][MintNext]_vars

(* C32: under every interleaving of concurrent mint requests of the        *)
(* controller, no user's free cash is ever negative.                       *)
C32_CashNeverNegative ==
  \A userId \in DOMAIN redis.users : redis.users[userId].balance >= 0

----------------------------------------------------------------------------
(* Concurrent sell requests of the controller on one symbol.               *)

\* how many sell requests are in flight together
MaxBookSells == 2

BookUsers == {"user1", "user2"}

BookPrices == {800, 1050}

\* placeSellOrder up to its first await: validateInput, then the hget of
\* checkSufficientStockBalance
BookSellCall(i) ==
  /\ tasks[i].pc = "idle"
  /\ Cardinality({j \in TaskIds : tasks[j].req.op = "sell"}) < MaxBookSells
  /\ \E userId \in BookUsers, stockType \in ReqTypes, price \in BookPrices :
       LET task == [IdleTask EXCEPT
                      !.req = Request("sell", userId, BTC, stockType, price, 1)]
       IN  tasks' = [tasks EXCEPT ![i] =
                       IF ctl_validateInput(userId, BTC, 1, price, stockType) # NoError
                       THEN Answered(task, 400)
                       ELSE [task EXCEPT
                               !.pc = "check",
                               !.local = Keep(<<>>, "stockBalances",
                                              Hget(redis.stockBalances, userId))]]
  /\ UNCHANGED redis
  /\ TaskFrame

BookSellCalls == \E i \in TaskIds : BookSellCall(i)

BookNext ==
  \/ BookSellCalls \/ SellBookHgets \/ SellBookHsets \/ SellStockHgets \/ SellStockHsets
  \/ SellMatchHgets \/ SellMatches

BookSpec == TasksInit /\ [][BookNext]_vars

\* the level of the symbol's book at (side, price), none when there is none
ctl_LevelAt(orderbook, stockSymbol, side, price) ==
  IF stockSymbol \in DOMAIN orderbook /\ price \in DOMAIN orderbook[stockSymbol][side]
  THEN << orderbook[stockSymbol][side][price] >>
  ELSE <<>>

\* task i is in matchOrders, between the reply to its hget of the book and
\* its final hset, and takes the step that ends with that hset
FinalWrite(i) ==
  /\ tasks[i].pc = "match" /\ tasks'[i].pc = "done" /\ tasks'[i].status = 200
  /\ tasks[i].local.orderbook # <<>>

\* task j has had its order added to the book and its 200 is sent or still
\* to come
Resting(j) ==
  /\ tasks[j].req.op = "sell"
  /\ tasks[j].pc \in {"placed", "stock", "locked", "match"}
     \/ (tasks[j].pc = "done" /\ tasks[j].status = 200)

(* C33: a change of the book committed by one request while another        *)
(* request's matchOrders is between its read of the book and its final     *)
(* write is still there after that write: every level that differs from    *)
(* the one matchOrders read is left as it is, and the order of every       *)
(* request that has added one is still in the book.                        *)
C33_BookChangesSurvive ==
  [][\A i \in TaskIds :
       FinalWrite(i) =>
         LET s    == tasks[i].req.stockSymbol
             read == (s :> tasks[i].local.orderbook[1])
         IN  /\ \A side \in ReqTypes :
                \A price \in DOMAIN redis.orderbook[s][side] :
                  ctl_LevelAt(redis.orderbook, s, side, price)
                      # ctl_LevelAt(read, s, side, price)
                    => ctl_LevelAt(redis'.orderbook, s, side, price)
                         = ctl_LevelAt(redis.orderbook, s, side, price)
             /\ \A j \in TaskIds :
                  Resting(j) =>
                    LET level == ctl_LevelAt(redis'.orderbook, s, tasks[j].req.stockType,
                                             tasks[j].req.price)
                    IN  level # <<>> /\ HasKey(level[1].orders, tasks[j].req.userId)]_vars

=============================================================================
